---- MODULE Spec2Model ----
(***************************************************************************)
(* Model of the api-battle-healer healing supervisor (runHealingAgent),    *)
(* its toolkit (executeAction and the repair guard), the degradation       *)
(* pipeline and the process-wide stores they share.                        *)
(***************************************************************************)
EXTENDS Integers, Sequences, FiniteSets, TLC

\* ------------------------------------------------------------------------
\* Bounds of the model (not program constants)
\* ------------------------------------------------------------------------
\* largest maxCycles a caller passes in the supervisor specification
MaxCyclesArg == 2
\* largest number of clock advances in the toolkit specification
MaxTicks == 2
\* largest number of executeAction calls on one HealingState in the toolkit
\* specification (the maxCycles of the states it builds)
MaxTkCalls == 3

\* ------------------------------------------------------------------------
\* Program constants
\* ------------------------------------------------------------------------
MAX_REPAIR_ATTEMPTS == 2
REPAIR_WINDOW_MS == 60000
REPAIR_WINDOW_LIMIT == 4
staleTtlMs == 300000

Null == "null"
\* absent values of record type
NoError == [status |-> 0, message |-> Null]
NoPayload == [id |-> Null, adapted |-> FALSE]
NoUrl == [abs |-> FALSE, path |-> "", query |-> ""]

\* ------------------------------------------------------------------------
\* Region registry (config/routing.ts)
\* ------------------------------------------------------------------------
ROUTING_TREE ==
  [id |-> "default", endpoint |-> "ep-root",
   children |-> << "aws-us-east-1", "aws-eu-west-1", "openai-us", "anthropic-us" >>]

RegionEndpoint ==
  [r \in {"default", "aws-us-east-1", "aws-eu-west-1", "openai-us", "anthropic-us"} |->
     CASE r = "default" -> "ep-root"
       [] r = "aws-us-east-1" -> "ep-us-east-1"
       [] r = "aws-eu-west-1" -> "ep-deprecated-eu"
       [] r = "openai-us" -> "ep-openai-us"
       [] r = "anthropic-us" -> "ep-anthropic-us"]

RegionFallbacks ==
  [r \in DOMAIN RegionEndpoint |->
     CASE r = "aws-us-east-1" -> << "aws-eu-west-1", "openai-us" >>
       [] r = "aws-eu-west-1" -> << "openai-us" >>
       [] r = "openai-us" -> << "anthropic-us" >>
       [] OTHER -> << >>]

RegionChildren ==
  [r \in DOMAIN RegionEndpoint |->
     IF r = "default" THEN ROUTING_TREE.children ELSE << >>]

RegionIds == DOMAIN RegionEndpoint

\* findRegionByEndpoint: the id of the node with that endpoint, or Null
findRegionByEndpoint(endpoint) ==
  IF \E r \in RegionIds : RegionEndpoint[r] = endpoint
  THEN CHOOSE r \in RegionIds : RegionEndpoint[r] = endpoint
  ELSE Null

HealthOf(health, id) == IF id \in DOMAIN health THEN health[id] ELSE "healthy"

\* a resolver that does not read forceInclude
resolveNextRegionNoForce(currentRegionId, health, forceInclude) ==
  LET currentNode == IF currentRegionId \in RegionIds
                     THEN currentRegionId
                     ELSE ROUTING_TREE.children[1]
      own == RegionChildren[currentNode] \o RegionFallbacks[currentNode]
      queue == IF Len(own) = 0 THEN ROUTING_TREE.children ELSE own
      ok(i) == queue[i] \in RegionIds /\ HealthOf(health, queue[i]) = "healthy"
  IN IF \E i \in 1..Len(queue) : ok(i)
     THEN queue[CHOOSE i \in 1..Len(queue) : ok(i) /\ \A j \in 1..(i - 1) : ~ok(j)]
     ELSE ROUTING_TREE.children[1]

\* resolveNextRegion (agent/routing.ts): first admissible candidate among the
\* children then the fallbacks of the current node, else the first root child
resolveNextRegion(currentRegionId, health, forceInclude) ==
  LET currentNode == IF currentRegionId \in RegionIds
                     THEN currentRegionId
                     ELSE ROUTING_TREE.children[1]
      own == RegionChildren[currentNode] \o RegionFallbacks[currentNode]
      queue == IF Len(own) = 0 THEN ROUTING_TREE.children ELSE own
      ok(i) == queue[i] \in RegionIds
               /\ (HealthOf(health, queue[i]) = "healthy" \/ queue[i] \in forceInclude)
  IN IF \E i \in 1..Len(queue) : ok(i)
     THEN queue[CHOOSE i \in 1..Len(queue) : ok(i) /\ \A j \in 1..(i - 1) : ~ok(j)]
     ELSE ROUTING_TREE.children[1]

\* index (0-based) of the first occurrence of x in s, or -1
findIndex(s, x) ==
  IF \E i \in 1..Len(s) : s[i] = x
  THEN (CHOOSE i \in 1..Len(s) : s[i] = x /\ \A j \in 1..(i - 1) : s[j] # x) - 1
  ELSE -1

\* state.regions[state.regionIndex] || fallback
RegionAt(regions, index, fallback) ==
  IF index + 1 \in 1..Len(regions) THEN regions[index + 1] ELSE fallback

\* ------------------------------------------------------------------------
\* Value domains
\* ------------------------------------------------------------------------
HealingActions ==
  {"retry", "refresh_token", "switch_region", "repair_payload", "rewrite_request",
   "adapt_schema", "infer_schema", "use_mock", "queue_recovery", "abort"}

\* what a planner can hand back as decision.action: a known action or, from
\* the LLM planner, any other string
PlannerActions == HealingActions \cup {"unknown_action"}

\* request URLs: absolute ones carry a query string that is not part of the
\* endpoint key, relative ones do not parse as URLs
Urls == { [abs |-> TRUE, path |-> "/external-api", query |-> "simulate=a"],
          [abs |-> TRUE, path |-> "/external-api", query |-> "simulate=b"],
          [abs |-> FALSE, path |-> "/external-api", query |-> ""] }

\* getEndpointKey: origin + pathname of a parseable URL, else the URL itself
getEndpointKey(url) ==
  IF url.abs THEN [abs |-> TRUE, path |-> url.path, query |-> ""] ELSE url

EndpointKeys == { getEndpointKey(u) : u \in Urls }

\* request bodies by shape
Bodies == {"absent", "json_object", "json_object_partial", "json_scalar", "bad_text"}

\* createDegradedResponse(data, degradation, extras)
createDegradedResponse(data, degradation, source, originalError) ==
  [data |-> data, degradation |-> degradation, source |-> source,
   originalError |-> originalError]

\* an intervention stamped with the cycles that are left
createInterventionCountingDown(st, action, reason) ==
  [cycle |-> st.maxCycles - st.cyclesUsed, action |-> action, reason |-> reason]

\* createIntervention(state, action, reason)
createIntervention(st, action, reason) ==
  [cycle |-> st.cyclesUsed, action |-> action, reason |-> reason]

\* ------------------------------------------------------------------------
\* Toolkit (agent/toolkit.ts)
\* ------------------------------------------------------------------------
\* the entry of the process-wide endpointRepairWindow map for a key that was
\* never set
NoWindow == [present |-> FALSE, count |-> 0, windowStart |-> 0]

\* a cap test that admits one repair too many
repairCapReachedLate(st) == st.repairAttempts > MAX_REPAIR_ATTEMPTS

\* if (state.repairAttempts >= MAX_REPAIR_ATTEMPTS)
repairCapReached(st) == st.repairAttempts >= MAX_REPAIR_ATTEMPTS

\* a window test that admits one action too many
repairWindowFullLate(existing) == existing.count > REPAIR_WINDOW_LIMIT

\* if (existing.count >= REPAIR_WINDOW_LIMIT)
repairWindowFull(existing) == existing.count >= REPAIR_WINDOW_LIMIT

\* ensureRepairAllowance(state): the per-state cap first, then the per-endpoint
\* window; returns the verdict, the abort reason and the window map it leaves
ensureRepairAllowance(st, win, clock) ==
  LET endpointKey == getEndpointKey(st.url)
      existing == win[endpointKey]
  IN IF repairCapReached(st)
     THEN [allowed |-> FALSE, reason |-> "max_repair_attempts", window |-> win]
     ELSE IF ~existing.present \/ clock - existing.windowStart > REPAIR_WINDOW_MS
     THEN [allowed |-> TRUE, reason |-> "",
           window |-> [win EXCEPT ![endpointKey] =
                         [present |-> TRUE, count |-> 1, windowStart |-> clock]]]
     ELSE IF repairWindowFull(existing)
     THEN [allowed |-> FALSE, reason |-> "repair_throttle", window |-> win]
     ELSE [allowed |-> TRUE, reason |-> "",
           window |-> [win EXCEPT ![endpointKey].count = existing.count + 1]]

\* a denied guard that leaves the cycle budget alone
GuardDeniedKeepsCycles(st, guard) ==
  [updatedState |-> st,
   intervention |-> createIntervention(st, "abort", guard.reason),
   window |-> guard.window, thrown |-> FALSE]

\* the interventionPayload of a denied guard
GuardDenied(st, guard) ==
  [updatedState |-> [st EXCEPT !.cyclesUsed = st.maxCycles],
   intervention |-> createIntervention(st, "abort", guard.reason),
   window |-> guard.window, thrown |-> FALSE]

Outcome(updated, intervention, win) ==
  [updatedState |-> updated, intervention |-> intervention, window |-> win,
   thrown |-> FALSE]

\* an action whose collaborator call raised: nothing is returned
Thrown(st, win) ==
  [updatedState |-> st, intervention |-> createIntervention(st, "abort", "thrown"),
   window |-> win, thrown |-> TRUE]

\* String.prototype.toLowerCase on the header names and the message words
\* of this model
toLowerCase(word) ==
  CASE word = "Authorization" -> "authorization"
    [] word = "Proxy-Authorization" -> "proxy-authorization"
    [] word = "COOKIE" -> "cookie"
    [] word = "X-Trace" -> "x-trace"
    [] word = "Quota" -> "quota"
    [] word = "RATE" -> "rate"
    [] OTHER -> word

\* toHeaders: new Headers(init) holds every name in lower case
toHeaders(names) == { toLowerCase(key) : key \in names }

\* withRepairHeaders: the request headers as a Headers object with
\* X-Healer-Repair-Attempt set
withRepairHeaders(headers, attempt) ==
  [repairAttempt |-> attempt, extra |-> toHeaders(headers.extra)]

\* refreshCredentials: io.credential is the token issued, or "fail"
refreshCredentials(st, io, win) ==
  IF io.credential = "fail"
  THEN Thrown(st, win)
  ELSE Outcome([st EXCEPT !.token = io.credential],
               createIntervention(st, "refresh_token", "Issued new API token"), win)

\* switchRegion
switchRegion(st, win) ==
  LET currentRegionEndpoint == RegionAt(st.regions, st.regionIndex, "")
      currentRegionNode == findRegionByEndpoint(currentRegionEndpoint)
      nextNode == resolveNextRegion(currentRegionNode, st.regionHealth, {})
      found == findIndex(st.regions, RegionEndpoint[nextNode])
      nextIndex == IF found = -1 THEN Len(st.regions) ELSE found
      updatedRegions == IF nextIndex < Len(st.regions)
                        THEN st.regions
                        ELSE Append(st.regions, RegionEndpoint[nextNode])
  IN Outcome([st EXCEPT !.regions = updatedRegions, !.regionIndex = nextIndex],
             createIntervention(st, "switch_region", "Switching to alternate region"), win)

\* requestMockResponse (agent/mockClient.ts): io.mock is "fail" when the POST
\* fails or answers non-2xx, else the degradation field of the answer
\* ("absent" when the answer has none)
requestMockResponse(io, lastErrorMessage) ==
  createDegradedResponse([id |-> "mock", adapted |-> FALSE],
                         IF io.mock = "absent" THEN "mocked" ELSE io.mock,
                         "llm-mock", lastErrorMessage)

\* state.attempts.at(-1)?.error
LastError(st) ==
  IF Len(st.attempts) = 0 THEN NoError ELSE st.attempts[Len(st.attempts)].error

\* fetchMock
fetchMock(st, io, win) ==
  IF io.mock = "fail"
  THEN Thrown(st, win)
  ELSE LET degraded == requestMockResponse(io, LastError(st).message)
       IN Outcome([st EXCEPT !.cachedResponse = degraded.data, !.degraded = degraded],
                  createIntervention(st, "use_mock", "Returning degraded response"), win)

\* repairPayload
repairPayload(st, win, clock) ==
  LET guard == ensureRepairAllowance(st, win, clock)
      body == st.options.body
      repaired == [st EXCEPT
                     !.options = [body |-> "json_object",
                                  headers |-> withRepairHeaders(st.options.headers,
                                                                st.repairAttempts + 1)],
                     !.repairAttempts = st.repairAttempts + 1]
      cloned == IF body \in {"json_object", "json_object_partial", "bad_text"}
                THEN repaired
                ELSE st
  IN IF ~guard.allowed
     THEN GuardDenied(st, guard)
     ELSE Outcome(cloned,
                  createIntervention(st, "repair_payload", "Auto-repaired payload schema"),
                  guard.window)

\* rewriteRequest: params.body is the planner's candidate body ("none" when
\* params carries none), params.headers the extra headers it asks for
rewriteRequest(st, params, win, clock) ==
  LET guard == ensureRepairAllowance(st, win, clock)
      headers == withRepairHeaders(st.options.headers, st.repairAttempts + 1)
      updated == [st EXCEPT
                    !.options = [body |-> params.body,
                                 headers |-> [headers EXCEPT !.extra = @ \cup toHeaders(params.headers)]],
                    !.repairAttempts = st.repairAttempts + 1]
  IN IF ~guard.allowed
     THEN GuardDenied(st, guard)
     ELSE IF params.body = "none"
     THEN Outcome(st,
                  createIntervention(st, "rewrite_request",
                                     "Planner requested rewrite but no payload provided"),
                  guard.window)
     ELSE Outcome(updated,
                  createIntervention(st, "rewrite_request", "Rewriting payload per Gemini plan"),
                  guard.window)

\* applySchemaAdaptation on the payloads of this model: hints that carry a
\* field map or defaults mark the payload as adapted
applySchemaAdaptation(hints, payload) ==
  IF hints = Null \/ payload = NoPayload
  THEN payload
  ELSE IF hints = "hints" THEN [payload EXCEPT !.adapted = TRUE] ELSE payload

\* mergeSchemaHints: always an object, empty when neither side has entries
mergeSchemaHints(current, params) ==
  IF params.hints \/ current = "hints" THEN "hints" ELSE "empty"

\* adaptSchema
adaptSchema(st, params, win) ==
  LET nextHints == mergeSchemaHints(st.schemaHints, params)
      updatedResponse == IF st.cachedResponse # NoPayload
                         THEN applySchemaAdaptation(nextHints, st.cachedResponse)
                         ELSE st.cachedResponse
  IN Outcome([st EXCEPT !.schemaHints = nextHints, !.cachedResponse = updatedResponse],
             createIntervention(st, "adapt_schema", "Adjusting schema expectations"), win)

\* headersToObject: the names that new Headers(init).forEach lists
headersToObject(headers) ==
  toHeaders(headers.extra)
    \cup (IF headers.repairAttempt > 0 THEN {"x-healer-repair-attempt"} ELSE {})

\* a filter that lets cookie through
sanitizeHeadersKeepsCookie(headers) ==
  { key \in headers : toLowerCase(key) \notin {"authorization", "proxy-authorization"} }

\* sanitizeHeaders: drops the blocked header names
sanitizeHeaders(headers) ==
  { key \in headers :
      toLowerCase(key) \notin {"authorization", "proxy-authorization", "cookie"} }

\* the JSON body that queueForRecovery posts to /queue-failed
queueEnvelope(st) ==
  [url |-> st.url,
   headers |-> sanitizeHeaders(headersToObject(st.options.headers)),
   body |-> st.options.body]

\* queueForRecovery: io.queue is "network_error" when the POST raises, else
\* the class of the answer, which the code does not inspect
queueForRecovery(st, io, win) ==
  IF io.queue = "network_error"
  THEN Thrown(st, win)
  ELSE Outcome([st EXCEPT !.queued = TRUE],
               createIntervention(st, "queue_recovery", "Queued request for async recovery"),
               win)

\* an abort that leaves cyclesUsed alone
AbortRequestedKeepsCycles(st, win) ==
  Outcome(st, createIntervention(st, "abort", "Abort requested"), win)

\* the abort/default branch of executeAction
AbortRequested(st, win) ==
  Outcome([st EXCEPT !.cyclesUsed = st.maxCycles],
          createIntervention(st, "abort", "Abort requested"), win)

\* executeAction(action, state, context, params)
executeAction(action, st, params, io, win, clock) ==
  CASE action = "refresh_token" -> refreshCredentials(st, io, win)
    [] action = "switch_region" -> switchRegion(st, win)
    [] action = "use_mock" -> fetchMock(st, io, win)
    [] action = "repair_payload" -> repairPayload(st, win, clock)
    [] action = "rewrite_request" -> rewriteRequest(st, params, win, clock)
    [] action = "queue_recovery" -> queueForRecovery(st, io, win)
    [] action \in {"adapt_schema", "infer_schema"} -> adaptSchema(st, params, win)
    [] action = "retry" ->
         Outcome(st, createIntervention(st, action, "Retrying request"), win)
    [] OTHER -> AbortRequested(st, win)

\* ------------------------------------------------------------------------
\* Response cache (healing/responseCache.ts) and degradation (agent/degradation.ts)
\* ------------------------------------------------------------------------
\* rememberResponse(key, data): the store with the entry of key replaced
rememberResponse(store, key, data, clock) ==
  { e \in store : e.key # key } \cup { [key |-> key, data |-> data, cachedAt |-> clock] }

\* a recall for which an entry as old as the TTL has expired
recallResponseExpiresAtTtl(store, key, ttlMs, clock) ==
  { e \in store : e.key = key /\ ~(ttlMs > 0 /\ clock - e.cachedAt >= ttlMs) }

\* recallResponse(key, ttlMs): the entries of key that are still fresh
recallResponse(store, key, ttlMs, clock) ==
  { e \in store : e.key = key /\ ~(ttlMs > 0 /\ clock - e.cachedAt > ttlMs) }

\* rememberSuccessfulResponse(key, data, config)
rememberSuccessfulResponse(store, key, data, config, clock) ==
  IF ~config.enableStaleCache THEN store ELSE rememberResponse(store, key, data, clock)

\* the null that applyDegradationPipeline returns when nothing applies
NoFallback == createDegradedResponse(NoPayload, Null, Null, Null)

\* a cache answer that is labelled as a mock
staleCacheResponseAsMock(cached, lastError) ==
  createDegradedResponse((CHOOSE e \in cached : TRUE).data, "mocked", "llm-mock",
                         lastError.message)

\* the DegradedResponse of a cache hit
staleCacheResponse(cached, lastError) ==
  createDegradedResponse((CHOOSE e \in cached : TRUE).data, "stale-cache", "cache",
                         lastError.message)

\* a mock branch that relabels what the mock collaborator returned
mockFallbackRelabelled(config, io, lastError) ==
  IF config.enableMock /\ io.mock # "fail"
  THEN [requestMockResponse(io, lastError.message) EXCEPT !.degradation = "mocked"]
  ELSE NoFallback

\* the mock branch: the collaborator's response, nothing when it is disabled
\* or throws (the exception is caught and warned)
mockFallback(config, io, lastError) ==
  IF config.enableMock /\ io.mock # "fail"
  THEN requestMockResponse(io, lastError.message)
  ELSE NoFallback

\* a pipeline that asks for a mock whether or not enableMock is set
applyDegradationPipelineAlwaysMock(config, cacheKey, lastError, io, store, clock) ==
  LET cached == recallResponse(store, cacheKey, config.staleTtlMs, clock)
  IN IF config.enableStaleCache /\ cached # {}
     THEN staleCacheResponse(cached, lastError)
     ELSE IF io.mock # "fail"
     THEN requestMockResponse(io, lastError.message)
     ELSE NoFallback

\* applyDegradationPipeline: the fallback, or NoFallback when there is none
applyDegradationPipeline(config, cacheKey, lastError, io, store, clock) ==
  LET cached == recallResponse(store, cacheKey, config.staleTtlMs, clock)
  IN IF config.enableStaleCache /\ cached # {}
     THEN staleCacheResponse(cached, lastError)
     ELSE mockFallback(config, io, lastError)

\* what the mock collaborator did when the pipeline called it ("fail": it
\* threw), "not_called" when the pipeline did not reach it
mockFetcherOutcome(config, cacheKey, io, store, clock) ==
  IF config.enableStaleCache /\ recallResponse(store, cacheKey, config.staleTtlMs, clock) # {}
  THEN "not_called"
  ELSE IF config.enableMock THEN io.mock ELSE "not_called"

\* ------------------------------------------------------------------------
\* Transport as the supervisor calls it (smartFetch with maxRetries = 0 and
\* one region): one HTTP exchange, at most one token recovery
\* ------------------------------------------------------------------------
\* http: the status answered (0 for a network error); recovery: what the
\* tokenRefresher does when it is called ("token", "empty" or "throws")
smartFetch(http, hasRefresher, recovery) ==
  IF http = 200
  THEN [error |-> NoError, refreshed |-> FALSE]
  ELSE IF http = 0
  THEN [error |-> [status |-> 0, message |-> "network error"], refreshed |-> FALSE]
  ELSE IF hasRefresher /\ http \in {401, 403, 429}
  THEN CASE recovery = "token" ->
              [error |-> [status |-> 0, message |-> "Request failed"], refreshed |-> TRUE]
         [] recovery = "throws" ->
              [error |-> [status |-> http, message |-> "recovery error"], refreshed |-> FALSE]
         [] OTHER ->
              [error |-> [status |-> http, message |-> "Token recovery unavailable."],
               refreshed |-> FALSE]
  ELSE [error |-> [status |-> http, message |-> "Request failed with status"],
        refreshed |-> FALSE]

\* ------------------------------------------------------------------------
\* Supervisor (agent/index.ts, runHealingAgent)
\* ------------------------------------------------------------------------
VARIABLES
  state,                 \* the HealingState of the invocation
  pc,                    \* where the invocation stands
  decision,              \* the HealingDecision of the current cycle
  result,                \* the HealingAgentResult once returned
  params,                \* the HealingAgentParams of the invocation
  calls,                 \* number of Transport calls of the invocation
  endpointRepairWindow,  \* process-wide map of toolkit.ts
  cacheStore,            \* process-wide map of responseCache.ts
  now,                   \* Date.now()
  ticks,                 \* number of clock advances so far
  returned,              \* what the last direct executeAction call returned
  fetches,               \* the smartFetch calls in flight, one frame per caller
  retryBudgetStore,      \* process-wide map of smartFetch.ts
  consumeLog,            \* times at which consumeRetryBudget returned true
  resolution,            \* the last resolveNextRegion call: arguments and result
  evaluation             \* the last call of a pure function: arguments and result

vars == << state, pc, decision, result, params, calls, endpointRepairWindow,
           cacheStore, now, ticks, returned, fetches, retryBudgetStore, consumeLog,
           resolution, evaluation >>

\* what the supervisor and the toolkit never touch
transportVars == << fetches, retryBudgetStore, consumeLog, resolution, evaluation >>

\* their value while no smartFetch call of the transport specification and
\* no region resolution or function call is modelled
NoTransport ==
  /\ fetches = << >>
  /\ retryBudgetStore = << >>
  /\ consumeLog = << >>
  /\ resolution = << >>
  /\ evaluation = << >>

NoDecision == [action |-> "none", params |-> [body |-> "none", headers |-> {}, hints |-> FALSE]]
NullDecision == [action |-> Null, params |-> [body |-> "none", headers |-> {}, hints |-> FALSE]]
NoResult == [returned |-> FALSE, success |-> FALSE, data |-> NoPayload,
             degraded |-> createDegradedResponse(NoPayload, "none", Null, Null),
             finalError |-> NoError, via |-> "none", pipelineMock |-> "not_called"]

NoReturn == [action |-> "none", body |-> "none",
             intervention |-> [cycle |-> 0, action |-> "none", reason |-> ""]]

\* the state literal that runHealingAgent builds after tokenProvider resolved
InitialState(p) ==
  [url |-> p.url,
   options |-> [body |-> p.body, headers |-> [repairAttempt |-> 0, extra |-> {}]],
   regions |-> p.regions,
   regionIndex |-> 0,
   regionHistory |-> << >>,
   regionHealth |-> << >>,
   token |-> "tok-initial",
   attempts |-> << >>,
   interventions |-> << >>,
   maxCycles |-> p.maxCycles,
   cyclesUsed |-> 0,
   repairAttempts |-> 0,
   degraded |-> createDegradedResponse(NoPayload, "none", Null, Null),
   decisionLog |-> << >>,
   cachedResponse |-> NoPayload,
   schemaHints |-> Null,
   queued |-> FALSE]

\* regions default of runHealingAgent: the endpoints of the root's children
DefaultRegions ==
  [i \in 1..Len(ROUTING_TREE.children) |-> RegionEndpoint[ROUTING_TREE.children[i]]]

\* DEFAULT_DEGRADATION overlaid with the caller's config
DegradationConfigs ==
  { [enableStaleCache |-> c, enableMock |-> m, staleTtlMs |-> staleTtlMs, cacheKey |-> k] :
      c \in BOOLEAN, m \in BOOLEAN, k \in {"cache-key"} }

\* a cache key: the caller's, or "<url>::<region>"
CustomKey(k) == [custom |-> k, url |-> NoUrl, region |-> ""]

RunUrl == [abs |-> TRUE, path |-> "/external-api", query |-> "simulate=a"]

DefaultDegradation ==
  [enableStaleCache |-> TRUE, enableMock |-> TRUE, staleTtlMs |-> staleTtlMs,
   cacheKey |-> "cache-key"]

\* the invocations of the supervisor specification: every degradation config
\* without a token recovery handler, the default config with one
AgentParams ==
  { [url |-> RunUrl, body |-> "json_object", regions |-> DefaultRegions, maxCycles |-> n,
     tokenRecoveryHandler |-> FALSE, degradation |-> d] :
      n \in 0..MaxCyclesArg, d \in DegradationConfigs }
  \cup
  { [url |-> RunUrl, body |-> "json_object", regions |-> DefaultRegions, maxCycles |-> n,
     tokenRecoveryHandler |-> TRUE, degradation |-> DefaultDegradation] :
      n \in 0..MaxCyclesArg }

\* makeCacheKey(regionHint)
makeCacheKey(p, regionHint) ==
  IF p.degradation.cacheKey # ""
  THEN CustomKey(p.degradation.cacheKey)
  ELSE [custom |-> "", url |-> p.url,
        region |-> IF regionHint = Null THEN "default" ELSE regionHint]

\* the process state an invocation can start from: the repair window of its
\* endpoint unset, or filled by earlier invocations; the cache empty, or
\* holding an earlier success under the caller's cache key
StartWindows ==
  { [k \in EndpointKeys |-> NoWindow] } \cup
  { [k \in EndpointKeys |->
       IF k = getEndpointKey(RunUrl)
       THEN [present |-> TRUE, count |-> c, windowStart |-> 0]
       ELSE NoWindow] : c \in {REPAIR_WINDOW_LIMIT - 1} }

StartCaches ==
  { {}, { [key |-> CustomKey("cache-key"), data |-> [id |-> "live", adapted |-> FALSE], cachedAt |-> 0] } }

Init ==
  /\ params \in AgentParams
  /\ state = InitialState(params)
  /\ pc = "loop"
  /\ decision = NoDecision
  /\ result = NoResult
  /\ calls = 0
  /\ endpointRepairWindow \in StartWindows
  /\ cacheStore \in StartCaches
  /\ now = 0
  /\ ticks = 0
  /\ returned = NoReturn
  /\ NoTransport

Put(f, k, v) == [x \in (DOMAIN f) \cup {k} |-> IF x = k THEN v ELSE f[x]]

CurrentRegion(st) == RegionAt(st.regions, st.regionIndex, "")

CurrentRegionId(st) ==
  IF findRegionByEndpoint(CurrentRegion(st)) # Null
  THEN findRegionByEndpoint(CurrentRegion(st))
  ELSE CurrentRegion(st)

\* a tag rule that passes over 429
unhealthyStatusWithout429(status) ==
  IF status = 410 THEN "deprecated"
  ELSE IF status = 503 THEN "unhealthy"
  ELSE Null

\* region tag of a failed cycle
unhealthyStatus(status) ==
  IF status = 410 THEN "deprecated"
  ELSE IF status = 503 \/ status = 429 THEN "unhealthy"
  ELSE Null

\* statuses the upstream answers in the supervisor specification (0: network error)
HttpStatuses == {200, 401, 410, 503}

\* the token the recovery handler put into state while the Transport ran
AfterRecovery(st, fetched) ==
  IF fetched.refreshed THEN [st EXCEPT !.token = "tok-recovered"] ELSE st

\* the data a live success returns
LiveData(st) ==
  IF st.schemaHints # Null
  THEN applySchemaAdaptation(st.schemaHints, [id |-> "live", adapted |-> FALSE])
  ELSE [id |-> "live", adapted |-> FALSE]

\* a live success tagged as a mock
LiveDegradationMocked == "mocked"

\* degradation level of the degraded response of a live success
LiveDegradation == "none"

\* one loop iteration up to the Transport result: a 2xx returns, anything
\* else is observed and counted
TransportSuccess(st0) ==
  LET normalizedData == LiveData(st0)
      degraded == createDegradedResponse(normalizedData, LiveDegradation, Null, Null)
      st == [st0 EXCEPT !.cachedResponse = normalizedData,
                        !.regionHealth = Put(st0.regionHealth, CurrentRegionId(st0), "healthy"),
                        !.degraded = degraded]
  IN /\ cacheStore' = rememberSuccessfulResponse(cacheStore,
                         makeCacheKey(params, CurrentRegionId(st0)), normalizedData,
                         params.degradation, now)
     /\ state' = st
     /\ result' = [returned |-> TRUE, success |-> TRUE, data |-> normalizedData,
                   degraded |-> degraded, finalError |-> NoError, via |-> "live",
                   pipelineMock |-> "not_called"]
     /\ pc' = "done"

\* the state after a failed cycle was recorded
Observe(st0, error) ==
  LET observation == [cycle |-> st0.cyclesUsed, error |-> error]
      tag == unhealthyStatus(error.status)
  IN [st0 EXCEPT !.attempts = Append(st0.attempts, observation),
                 !.cyclesUsed = st0.cyclesUsed + 1,
                 !.regionHistory = Append(st0.regionHistory, CurrentRegionId(st0)),
                 !.regionHealth = IF tag # Null
                                  THEN Put(st0.regionHealth, CurrentRegionId(st0), tag)
                                  ELSE st0.regionHealth]

TransportFailure(st0, error) ==
  /\ state' = Observe(st0, error)
  /\ pc' = "plan"
  /\ UNCHANGED << result, cacheStore >>

\* a loop test that admits one cycle too many
LoopConditionOffByOne(st) == st.cyclesUsed <= st.maxCycles

\* while (state.cyclesUsed < state.maxCycles)
LoopCondition(st) == st.cyclesUsed < st.maxCycles

\* one loop iteration whose upstream answers one of the given statuses
TransportWith(statuses) ==
  /\ LoopCondition(state)
  /\ \E http \in statuses, recovery \in {"token", "empty", "throws"} :
       LET fetched == smartFetch(http, params.tokenRecoveryHandler, recovery)
           st0 == AfterRecovery(state, fetched)
       IN IF fetched.error = NoError
          THEN TransportSuccess(st0)
          ELSE TransportFailure(st0, fetched.error)
  /\ calls' = calls + 1
  /\ UNCHANGED << decision, params, endpointRepairWindow, now, ticks, returned >>
  /\ UNCHANGED transportVars

Transport ==
  /\ pc = "loop"
  /\ TransportWith(HttpStatuses)

\* what the planner can answer: any action with any params, or (LLM planner)
\* the JSON value null
Decisions ==
  { [action |-> a, params |-> [body |-> b, headers |-> h, hints |-> s]] :
      a \in PlannerActions, b \in {"none", "json_object"}, h \in {{}}, s \in {FALSE} }
  \cup { NullDecision }

\* getHealingDecision, logGeminiDecision (its failure is caught) and the
\* decisionLog append, which reads decision.action
Plan ==
  /\ pc = "plan"
  /\ \E d \in Decisions :
       /\ (d.params.body # "none" => d.action = "rewrite_request")
       /\ decision' = d
       /\ IF d = NullDecision
          THEN /\ pc' = "thrown"
               /\ state' = state
          ELSE /\ pc' = "act"
               /\ state' = [state EXCEPT !.decisionLog =
                              Append(state.decisionLog,
                                     [cycle |-> state.cyclesUsed - 1, action |-> d.action])]
  /\ UNCHANGED << result, params, calls, endpointRepairWindow, cacheStore, now, ticks,
                  returned >>
  /\ UNCHANGED transportVars

\* what the collaborators of one toolkit action can do
IoOutcomes ==
  { [credential |-> c, mock |-> m, queue |-> q] :
      c \in {"tok-issued", "fail"},
      m \in {"fail", "absent", "partial", "none"},
      q \in {"ok", "network_error", "non_2xx"} }

\* the collaborator outcomes that the action reads; the others are fixed
IoFor(action) ==
  { io \in IoOutcomes :
      /\ (action # "refresh_token" => io.credential = "tok-issued")
      /\ (action # "use_mock" => io.mock = "absent")
      /\ (action # "queue_recovery" => io.queue = "ok") }

\* the return of the use_mock branch
ReturnMock(st) ==
  [returned |-> TRUE, success |-> TRUE, data |-> st.degraded.data,
   degraded |-> st.degraded, finalError |-> NoError, via |-> "use_mock",
   pipelineMock |-> "not_called"]

\* executeAction, the interventions append and the checks that follow it
Act ==
  /\ pc = "act"
  /\ \E io \in IoFor(decision.action) :
       LET out == executeAction(decision.action, state, decision.params, io,
                                endpointRepairWindow, now)
           st == [out.updatedState EXCEPT !.interventions =
                    Append(out.updatedState.interventions, out.intervention)]
       IN IF out.thrown
          THEN /\ pc' = "thrown"
               /\ UNCHANGED << state, result, endpointRepairWindow >>
          ELSE /\ state' = st
               /\ endpointRepairWindow' = out.window
               /\ IF decision.action = "use_mock"
                  THEN /\ result' = ReturnMock(st)
                       /\ pc' = "done"
                  ELSE /\ result' = result
                       /\ pc' = IF decision.action \in {"queue_recovery", "abort"}
                                THEN "degrade"
                                ELSE "loop"
  /\ decision' = NoDecision
  /\ UNCHANGED << params, calls, cacheStore, now, ticks,
                  returned >>
  /\ UNCHANGED transportVars

\* a give-up tagged as a partial response
GiveUpDegradedPartial(lastError) ==
  createDegradedResponse(NoPayload, "partial", Null, lastError.message)

\* the degraded response of the give-up return
GiveUpDegraded(lastError) ==
  createDegradedResponse(NoPayload, "none", Null, lastError.message)

\* a give-up that always reports the exhausted agent
finalErrorOfAlwaysExhausted(lastError) ==
  [status |-> 0, message |-> "Agent exhausted"]

\* finalError: lastError ?? { message: 'Agent exhausted' }
finalErrorOf(lastError) ==
  IF lastError = NoError THEN [status |-> 0, message |-> "Agent exhausted"] ELSE lastError

\* after the loop: the degradation pipeline, then the fallback or give-up return
Degrade ==
  /\ \/ pc = "degrade"
     \/ pc = "loop" /\ ~LoopCondition(state)
  /\ \E io \in IoFor("use_mock") :
       LET lastError == LastError(state)
           hint == IF Len(state.regionHistory) = 0 THEN Null
                   ELSE state.regionHistory[Len(state.regionHistory)]
           fallback == applyDegradationPipeline(params.degradation,
                         makeCacheKey(params, hint), lastError, io, cacheStore, now)
           mocked == mockFetcherOutcome(params.degradation, makeCacheKey(params, hint),
                                        io, cacheStore, now)
       IN IF fallback # NoFallback
          THEN /\ state' = [state EXCEPT !.cachedResponse = fallback.data,
                                         !.degraded = fallback]
               /\ result' = [returned |-> TRUE, success |-> TRUE, data |-> fallback.data,
                             degraded |-> fallback, finalError |-> NoError,
                             via |-> "fallback", pipelineMock |-> mocked]
          ELSE /\ state' = state
               /\ result' = [returned |-> TRUE, success |-> FALSE, data |-> NoPayload,
                             degraded |-> GiveUpDegraded(lastError),
                             finalError |-> finalErrorOf(lastError),
                             via |-> "gave_up", pipelineMock |-> mocked]
  /\ pc' = "done"
  /\ UNCHANGED << decision, params, calls, endpointRepairWindow, cacheStore, now, ticks,
                  returned >>
  /\ UNCHANGED transportVars

Next == Transport \/ Plan \/ Act \/ Degrade

Spec == Init /\ [][Next]_vars

\* ------------------------------------------------------------------------
\* The toolkit called directly (as toolkit.test.ts does): any number of
\* HealingStates, one per supervisor invocation, share the process-wide
\* repair window while the clock advances
\* ------------------------------------------------------------------------
TkBodies == {"json_object", "json_scalar", "bad_text"}

\* createState(overrides) of the toolkit tests
TkParams ==
  { [url |-> u, body |-> b, regions |-> << RegionEndpoint["default"] >>,
     maxCycles |-> MaxTkCalls, tokenRecoveryHandler |-> FALSE,
     degradation |-> DefaultDegradation] : u \in Urls, b \in TkBodies }

TkInit ==
  /\ params \in TkParams
  /\ state = InitialState(params)
  /\ pc = "toolkit"
  /\ decision = NoDecision
  /\ result = NoResult
  /\ calls = 0
  /\ endpointRepairWindow = [k \in EndpointKeys |-> NoWindow]
  /\ cacheStore = {}
  /\ now = 0
  /\ ticks = 0
  /\ returned = NoReturn
  /\ NoTransport

\* a further invocation builds its own HealingState
TkCreate ==
  /\ calls > 0
  /\ \E p \in TkParams :
       /\ params' = p
       /\ state' = InitialState(p)
  /\ calls' = 0
  /\ returned' = NoReturn
  /\ UNCHANGED << pc, decision, result, endpointRepairWindow, cacheStore, now, ticks >>
  /\ UNCHANGED transportVars

\* executeAction('repair_payload' | 'rewrite_request', state, context, params)
\* on the state the previous call returned
TkExecute ==
  /\ calls < MaxTkCalls
  /\ \E action \in {"repair_payload", "rewrite_request"}, body \in {"none", "json_object"} :
       /\ (body # "none" => action = "rewrite_request")
       /\ LET out == executeAction(action, state,
                                   [body |-> body, headers |-> {}, hints |-> FALSE],
                                   [credential |-> "tok-issued", mock |-> "absent",
                                    queue |-> "ok"],
                                   endpointRepairWindow, now)
          IN /\ state' = out.updatedState
             /\ endpointRepairWindow' = out.window
             /\ returned' = [action |-> action, body |-> body,
                             intervention |-> out.intervention]
  /\ calls' = calls + 1
  /\ UNCHANGED << pc, decision, result, params, cacheStore, now, ticks >>
  /\ UNCHANGED transportVars

\* Date.now() moves on: by a millisecond, or by the length of a repair window
TkTick ==
  /\ ticks < MaxTicks
  /\ \E step \in {1, REPAIR_WINDOW_MS} : now' = now + step
  /\ ticks' = ticks + 1
  /\ UNCHANGED << state, pc, decision, result, params, calls, endpointRepairWindow,
                  cacheStore, returned >>
  /\ UNCHANGED transportVars

TkNext == TkCreate \/ TkExecute \/ TkTick

TkSpec == TkInit /\ [][TkNext]_vars

\* ------------------------------------------------------------------------
\* Transport (smartFetch.ts): the attempt loop of smartFetch, one step per
\* await (fetch, tokenRefresher, sleep), and the retry budget store
\* ------------------------------------------------------------------------
RETRY_BUDGET_DEFAULT_WINDOW_MS == 86400000

\* DEFAULT_RETRY_CODES
\* default retry codes without 429
DefaultRetryCodesWithout429 == {410} \cup (500..599)

DEFAULT_RETRY_CODES == {410, 429} \cup (500..599)

\* isRetryable(status, retryCodes); status 0 stands for no status
isRetryable(status, retryCodes) ==
  \/ status = 0
  \/ status \in retryCodes
  \/ (status >= 500 /\ status <= 599)

\* retryCodeSet of a call: the configured codes, or the default ones
retryCodeSet(config) ==
  IF config.retryStatusCodes # {} THEN config.retryStatusCodes ELSE DEFAULT_RETRY_CODES

\* RetryBudgetConfig values: absent, a key with the default window, a key
\* with a window of its own
NoBudget == [key |-> "", limit |-> 0, windowMs |-> 0]
RetryBudgetConfigs ==
  { [key |-> "k-day", limit |-> 1, windowMs |-> 0],
    [key |-> "k-minute", limit |-> 2, windowMs |-> 60000] }
BudgetKeys == { c.key : c \in RetryBudgetConfigs }

\* config.windowMs ?? RETRY_BUDGET_DEFAULT_WINDOW_MS (0 stands for undefined)
windowMsOf(config) ==
  IF config.windowMs = 0 THEN RETRY_BUDGET_DEFAULT_WINDOW_MS ELSE config.windowMs

NoBucket == [present |-> FALSE, count |-> 0, windowStart |-> 0, windowMs |-> 0]

\* getRetryBudgetWindow(config): the store it leaves; the bucket is the entry
\* of config.key in it
getRetryBudgetWindow(store, config, clock) ==
  LET windowMs == windowMsOf(config)
      existing == store[config.key]
  IN IF ~existing.present \/ clock - existing.windowStart >= windowMs
     THEN [store EXCEPT ![config.key] =
             [present |-> TRUE, count |-> 0, windowStart |-> clock, windowMs |-> windowMs]]
     ELSE store

\* a budget test that grants one retry too many
budgetSpentLate(bucket, config) == bucket.count > config.limit

\* if (bucket.count >= config.limit)
budgetSpent(bucket, config) == bucket.count >= config.limit

\* a consume whose increment is lost once the bucket holds a count
consumeRetryBudgetLostUpdate(store, config, clock) ==
  LET opened == getRetryBudgetWindow(store, config, clock)
      bucket == opened[config.key]
  IN IF budgetSpent(bucket, config)
     THEN [granted |-> FALSE, store |-> opened]
     ELSE [granted |-> TRUE,
           store |-> [opened EXCEPT ![config.key].count =
                        IF bucket.count = 0 THEN 1 ELSE bucket.count]]

\* consumeRetryBudget(config): the verdict and the store it leaves
consumeRetryBudget(store, config, clock) ==
  LET opened == getRetryBudgetWindow(store, config, clock)
      bucket == opened[config.key]
  IN IF budgetSpent(bucket, config)
     THEN [granted |-> FALSE, store |-> opened]
     ELSE [granted |-> TRUE,
           store |-> [opened EXCEPT ![config.key].count = bucket.count + 1]]

\* largest maxRetries a caller configures in the transport specifications
MaxRetriesArg == 1

\* what fetch settles with: a response status, or 0 when it rejects
SfStatuses == {0, 200, 401, 403, 404, 410, 429, 503}

\* SmartFetchConfig values of the calls
SfConfigs ==
  { [maxRetries |-> m, tokenRefresher |-> t, retryBudget |-> b, retryStatusCodes |-> c] :
      m \in 0..MaxRetriesArg, t \in BOOLEAN,
      b \in {NoBudget} \cup RetryBudgetConfigs, c \in {{}, {404}} }

\* the fix action `retry_status_${status}`
retryStatusAction(status) ==
  CASE status = 404 -> "retry_status_404"
    [] status = 410 -> "retry_status_410"
    [] status = 429 -> "retry_status_429"
    [] status = 503 -> "retry_status_503"
    [] OTHER -> "retry_status_other"

NoLast == [status |-> 0, consumed |-> "none"]

\* a caller that has no call in flight and never made one
IdleFrame ==
  [config |-> [maxRetries |-> 0, tokenRefresher |-> FALSE, retryBudget |-> NoBudget,
               retryStatusCodes |-> {}],
   phase |-> "idle", attempt |-> 0, tokenRecoveryAttempted |-> FALSE,
   authorization |-> "tok-initial", requests |-> 0, lastAuthorization |-> Null,
   refresherCalls |-> 0, fixActions |-> {}, fixActionsForAttempt |-> {},
   attempts |-> << >>, last |-> NoLast, error |-> NoError]

\* the locals of smartFetch when the loop is entered
NewFrame(config) ==
  [IdleFrame EXCEPT !.config = config, !.phase = "fetching"]

\* return after the loop: error is lastError ?? { message: 'Request failed' }
Finished(f, error) ==
  [f EXCEPT !.phase = "returned",
            !.error = IF error = NoError
                      THEN [status |-> 0, message |-> "Request failed"] ELSE error]

\* a push that reaches fixActionSet only
pushFixActionSetOnly(f, action) ==
  [f EXCEPT !.fixActions = @ \cup {action}]

\* fixActionsForAttempt.push(action); fixActionSet.add(action)
pushFixAction(f, action) ==
  [f EXCEPT !.fixActions = @ \cup {action}, !.fixActionsForAttempt = @ \cup {action}]

\* logEntry.fixActions = fixActionsForAttempt; attempts.push(logEntry): status
\* 0 is the entry of a rejected fetch, which carries no status
logged(f, status) ==
  [f EXCEPT !.attempts = Append(@, [status |-> status,
                                    fixActions |-> f.fixActionsForAttempt])]

\* `continue`: the next iteration if the loop condition admits one
Continue(f) ==
  IF f.attempt + 1 < f.config.maxRetries + 1
  THEN [f EXCEPT !.attempt = f.attempt + 1, !.phase = "fetching",
                 !.fixActionsForAttempt = {}]
  ELSE Finished([f EXCEPT !.attempt = f.attempt + 1], NoError)

\* a retry branch that sleeps and retries after a denial
retryOrStopDeniedSleeps(f, status, terminal, store, clock) ==
  LET hasAttemptsRemaining == f.attempt < (f.config.maxRetries + 1) - 1
      budgeted == f.config.retryBudget # NoBudget
      consumed == IF budgeted THEN consumeRetryBudget(store, f.config.retryBudget, clock)
                  ELSE [granted |-> TRUE, store |-> store]
  IN IF ~hasAttemptsRemaining
     THEN [frame |-> Finished(logged(f, status), terminal), store |-> store]
     ELSE [frame |-> [logged(f, status) EXCEPT
                        !.phase = "sleeping",
                        !.last.consumed = IF ~budgeted THEN "none"
                                          ELSE IF consumed.granted THEN "granted"
                                          ELSE "denied"],
           store |-> consumed.store]

\* the retry branch shared by a retryable status and a network error: the
\* budget is consumed only if attempts remain; terminal is the error of the
\* last attempt
retryOrStop(f, status, terminal, store, clock) ==
  LET hasAttemptsRemaining == f.attempt < (f.config.maxRetries + 1) - 1
      budgeted == f.config.retryBudget # NoBudget
      consumed == IF budgeted THEN consumeRetryBudget(store, f.config.retryBudget, clock)
                  ELSE [granted |-> TRUE, store |-> store]
  IN IF ~hasAttemptsRemaining
     THEN [frame |-> Finished(logged(f, status), terminal), store |-> store]
     ELSE IF ~consumed.granted
     THEN [frame |-> Finished([logged(pushFixAction(f, "retry_budget_exhausted"), status)
                                 EXCEPT !.last.consumed = "denied"],
                              [status |-> status, message |-> "Retry budget exhausted"]),
           store |-> consumed.store]
     ELSE [frame |-> [logged(f, status) EXCEPT
                        !.phase = "sleeping",
                        !.last.consumed = IF budgeted THEN "granted" ELSE "none"],
           store |-> consumed.store]

\* a retryable status on the last attempt leaves the retry branch, where
\* its entry was pushed, and runs into the terminal block, which pushes the
\* same entry again
fallThrough(f, out) ==
  IF f.attempt < (f.config.maxRetries + 1) - 1
  THEN out
  ELSE [out EXCEPT !.frame = logged(out.frame, f.last.status)]

\* a recovery condition that does not read tokenRecoveryAttempted
recoveryDueAgain(f, status) ==
  /\ f.config.tokenRefresher
  /\ status \in {401, 403, 429}

\* tokenRefresher && !tokenRecoveryAttempted && status is 401, 403 or 429
recoveryDue(f, status) ==
  /\ f.config.tokenRefresher
  /\ ~f.tokenRecoveryAttempted
  /\ status \in {401, 403, 429}

\* smartFetch from the moment fetch settles to the next await or the return
onSettled(f0, status, store, clock) ==
  LET f == [f0 EXCEPT !.requests = @ + 1, !.lastAuthorization = f0.authorization,
                      !.last = [status |-> status, consumed |-> "none"]]
      shouldRetry == isRetryable(status, retryCodeSet(f.config))
      failed == [status |-> status, message |-> "Request failed with status"]
  IN CASE status = 0 ->
            retryOrStop(pushFixAction(f, "network_error"), 0,
                        [status |-> 0, message |-> "network error"], store, clock)
       [] status = 200 ->
            [frame |-> [logged(f, status) EXCEPT !.phase = "returned", !.error = NoError],
             store |-> store]
       [] status # 0 /\ status # 200 /\ recoveryDue(f, status) ->
            [frame |-> [f EXCEPT !.tokenRecoveryAttempted = TRUE, !.phase = "refreshing",
                                 !.refresherCalls = @ + 1],
             store |-> store]
       [] OTHER ->
            IF shouldRetry
            THEN fallThrough(f, retryOrStop(pushFixAction(f, retryStatusAction(status)),
                                            status, failed, store, clock))
            ELSE [frame |-> Finished(logged(f, status), failed), store |-> store]

\* a recovery whose empty token is taken for a retryable failure of the
\* attempt
onRefreshedEmptyRetries(f, outcome) ==
  LET status == f.last.status
      recoveryAction == IF status = 401 \/ status = 429 THEN "refresh_token"
                        ELSE "rotate_token"
  IN CASE outcome = "token" ->
            Continue(logged(pushFixAction([f EXCEPT !.authorization = "tok-recovered"],
                                          recoveryAction), status))
       [] outcome = "throws" ->
            Finished(logged(f, status), [status |-> status, message |-> "recovery error"])
       [] OTHER -> Continue(logged(f, status))

\* smartFetch from the moment tokenRefresher settles: a token, nothing, or
\* a rejection
onRefreshed(f, outcome) ==
  LET status == f.last.status
      recoveryAction == IF status = 401 \/ status = 429 THEN "refresh_token"
                        ELSE "rotate_token"
  IN CASE outcome = "token" ->
            Continue(logged(pushFixAction([f EXCEPT !.authorization = "tok-recovered"],
                                          recoveryAction), status))
       [] outcome = "throws" ->
            Finished(logged(f, status), [status |-> status, message |-> "recovery error"])
       [] OTHER ->
            Finished(logged(f, status),
                     [status |-> status, message |-> "Token recovery unavailable."])

\* the callers whose smartFetch calls may overlap
Callers == {"a", "b"}

BudgetOf(key) == CHOOSE c \in RetryBudgetConfigs : c.key = key

\* the grants of a key that lie less than its window back from the clock
RecentGrants(log, key, clock) ==
  SelectSeq(log[key], LAMBDA t : clock - t < windowMsOf(BudgetOf(key)))

\* the supervisor variables while only the transport is modelled
NoSupervisor ==
  /\ params = CHOOSE q \in TkParams : TRUE
  /\ state = InitialState(params)
  /\ pc = "transport"
  /\ decision = NoDecision
  /\ result = NoResult
  /\ calls = 0
  /\ endpointRepairWindow = [k \in EndpointKeys |-> NoWindow]
  /\ cacheStore = {}
  /\ returned = NoReturn

supervisorVars == << state, pc, decision, result, params, calls, endpointRepairWindow,
                     cacheStore, returned >>

SfInit ==
  /\ NoSupervisor
  /\ now = 0
  /\ ticks = 0
  /\ fetches = [p \in Callers |-> IdleFrame]
  /\ retryBudgetStore = [k \in BudgetKeys |-> NoBucket]
  /\ consumeLog = [k \in BudgetKeys |-> << >>]
  /\ resolution = << >>
  /\ evaluation = << >>

\* smartFetch(url, options, config) is called
SfCall(p) ==
  /\ fetches[p].phase = "idle"
  /\ \E config \in SfConfigs : fetches' = [fetches EXCEPT ![p] = NewFrame(config)]
  /\ UNCHANGED << supervisorVars, now, ticks, retryBudgetStore, consumeLog, resolution, evaluation >>

\* the caller has taken the SmartFetchResult
SfTake(p) ==
  /\ fetches[p].phase = "returned"
  /\ fetches' = [fetches EXCEPT ![p] = IdleFrame]
  /\ UNCHANGED << supervisorVars, now, ticks, retryBudgetStore, consumeLog, resolution, evaluation >>

\* await fetch(targetUrl, requestInit) settles
SfSettle(p) ==
  /\ fetches[p].phase = "fetching"
  /\ \E status \in SfStatuses :
       LET out == onSettled(fetches[p], status, retryBudgetStore, now)
           key == fetches[p].config.retryBudget.key
       IN /\ fetches' = [fetches EXCEPT ![p] = out.frame]
          /\ retryBudgetStore' = out.store
          /\ consumeLog' = IF out.frame.last.consumed = "granted"
                           THEN [consumeLog EXCEPT ![key] = Append(@, now)]
                           ELSE consumeLog
  /\ UNCHANGED << supervisorVars, now, ticks, resolution, evaluation >>

\* await tokenRefresher(recoveryContext) settles
SfRefresh(p) ==
  /\ fetches[p].phase = "refreshing"
  /\ \E outcome \in {"token", "empty", "throws"} :
       fetches' = [fetches EXCEPT ![p] = onRefreshed(fetches[p], outcome)]
  /\ UNCHANGED << supervisorVars, now, ticks, retryBudgetStore, consumeLog, resolution, evaluation >>

\* await sleep(delay) is over
SfWake(p) ==
  /\ fetches[p].phase = "sleeping"
  /\ fetches' = [fetches EXCEPT ![p] = Continue(fetches[p])]
  /\ UNCHANGED << supervisorVars, now, ticks, retryBudgetStore, consumeLog, resolution, evaluation >>

\* Date.now() moves on: by a millisecond, or to the last millisecond before
\* a window of the minute budget is over
SfTick ==
  /\ ticks < MaxTicks
  /\ \E step \in {1, 59999} :
       /\ now' = now + step
       /\ consumeLog' = [k \in BudgetKeys |-> RecentGrants(consumeLog, k, now + step)]
  /\ ticks' = ticks + 1
  /\ UNCHANGED << supervisorVars, fetches, retryBudgetStore, resolution, evaluation >>

\* one caller: the calls follow one another
SfNext ==
  \/ SfCall("a") \/ SfSettle("a") \/ SfRefresh("a") \/ SfWake("a") \/ SfTake("a")
  \/ SfTick

SfSpec == SfInit /\ [][SfNext]_vars

\* ------------------------------------------------------------------------
\* Overlapping work on the process-wide stores: two smartFetch calls that
\* share the retry budget store and two supervisor invocations that share
\* the endpoint repair window. Every step runs from one await to the next,
\* as the single-threaded event loop runs it
\* ------------------------------------------------------------------------
Invocations == {"i1", "i2"}

\* the calls that overlap: budgeted, one retry, default retry codes
CoConfigs ==
  { c \in SfConfigs : /\ c.retryBudget # NoBudget
                      /\ c.maxRetries = 1
                      /\ ~c.tokenRefresher
                      /\ c.retryStatusCodes = {} }

CoParams ==
  [url |-> RunUrl, body |-> "json_object", regions |-> DefaultRegions,
   maxCycles |-> MaxTkCalls, tokenRecoveryHandler |-> FALSE,
   degradation |-> DefaultDegradation]

CoInit ==
  /\ params = CoParams
  /\ state = [i \in Invocations |-> InitialState(CoParams)]
  /\ pc = "overlap"
  /\ decision = NoDecision
  /\ result = NoResult
  /\ calls = 0
  /\ endpointRepairWindow \in StartWindows
  /\ cacheStore = {}
  /\ returned = NoReturn
  /\ now = 0
  /\ ticks = 0
  /\ fetches = [p \in Callers |-> IdleFrame]
  /\ retryBudgetStore = [k \in BudgetKeys |-> NoBucket]
  /\ consumeLog = [k \in BudgetKeys |-> << >>]
  /\ resolution = << >>
  /\ evaluation = << >>

\* the guarded action each invocation's plan asks for
CoAction == [i \in Invocations |-> IF i = "i1" THEN "repair_payload" ELSE "rewrite_request"]

\* invocation i executes its guarded action on its own HealingState
CoRepair(i) ==
  /\ calls < MaxTkCalls
  /\ LET action == CoAction[i]
         out == executeAction(action, state[i],
                              [body |-> IF action = "rewrite_request"
                                        THEN "json_object" ELSE "none",
                               headers |-> {}, hints |-> FALSE],
                              [credential |-> "tok-issued", mock |-> "absent",
                               queue |-> "ok"],
                              endpointRepairWindow, now)
     IN /\ state' = [state EXCEPT ![i] = out.updatedState]
        /\ endpointRepairWindow' = out.window
        /\ returned' = [action |-> action, body |-> "none",
                        intervention |-> out.intervention]
  /\ calls' = calls + 1
  /\ UNCHANGED << pc, decision, result, params, cacheStore, now, ticks >>
  /\ UNCHANGED transportVars

\* caller p starts a smartFetch call
CoCall(p) ==
  /\ fetches[p].phase = "idle"
  /\ \E config \in CoConfigs : fetches' = [fetches EXCEPT ![p] = NewFrame(config)]
  /\ UNCHANGED << supervisorVars, now, ticks, retryBudgetStore, consumeLog, resolution, evaluation >>

CoNext ==
  \/ \E i \in Invocations : CoRepair(i)
  \/ \E p \in Callers : CoCall(p) \/ SfSettle(p) \/ SfWake(p) \/ SfTake(p)

CoSpec == CoInit /\ [][CoNext]_vars

\* ------------------------------------------------------------------------
\* The supervisor over caller-supplied region lists: the default list, a
\* list with one endpoint the routing tree does not hold, and the empty list
\* ------------------------------------------------------------------------
RgRegions == { DefaultRegions, << "ep-custom" >>, << >> }

RgStatuses == {200, 401, 410, 429, 503}

RgParams ==
  { [url |-> RunUrl, body |-> "json_object", regions |-> r, maxCycles |-> n,
     tokenRecoveryHandler |-> h, degradation |-> DefaultDegradation] :
      r \in RgRegions, n \in 0..MaxCyclesArg, h \in BOOLEAN }

RgInit ==
  /\ params \in RgParams
  /\ state = InitialState(params)
  /\ pc = "loop"
  /\ decision = NoDecision
  /\ result = NoResult
  /\ calls = 0
  /\ endpointRepairWindow = [k \in EndpointKeys |-> NoWindow]
  /\ cacheStore = {}
  /\ now = 0
  /\ ticks = 0
  /\ returned = NoReturn
  /\ NoTransport

RgTransport ==
  /\ pc = "loop"
  /\ TransportWith(RgStatuses)

RgNext == RgTransport \/ Plan \/ Act \/ Degrade

RgSpec == RgInit /\ [][RgNext]_vars

\* ------------------------------------------------------------------------
\* Runs that follow one another in one process and share the response
\* cache under one cache key, while the clock advances between them
\* ------------------------------------------------------------------------
\* what the upstream answers in these runs
CaStatuses == {200, 503}

\* runs of at most one cycle, with and without stale cache and mock
CaParams ==
  { [url |-> RunUrl, body |-> "json_object", regions |-> DefaultRegions, maxCycles |-> n,
     tokenRecoveryHandler |-> FALSE,
     degradation |-> [DefaultDegradation EXCEPT !.enableStaleCache = c,
                                                !.enableMock = m]] :
      n \in 0..1, c \in BOOLEAN, m \in BOOLEAN }

CaInit ==
  /\ params \in CaParams
  /\ state = InitialState(params)
  /\ pc = "loop"
  /\ decision = NoDecision
  /\ result = NoResult
  /\ calls = 0
  /\ endpointRepairWindow = [k \in EndpointKeys |-> NoWindow]
  /\ cacheStore = {}
  /\ now = 0
  /\ ticks = 0
  /\ returned = NoReturn
  /\ NoTransport

CaTransport ==
  /\ pc = "loop"
  /\ TransportWith(CaStatuses)

\* Date.now() moves on between two runs: by a millisecond, or by the stale
\* TTL
CaTick ==
  /\ pc \in {"done", "thrown"}
  /\ ticks < MaxTicks
  /\ \E step \in {1, staleTtlMs} : now' = now + step
  /\ ticks' = ticks + 1
  /\ UNCHANGED << state, pc, decision, result, params, calls, endpointRepairWindow,
                  cacheStore, returned >>
  /\ UNCHANGED transportVars

\* the next runHealingAgent call of the process
CaRestart ==
  /\ pc \in {"done", "thrown"}
  /\ \E p \in CaParams :
       /\ params' = p
       /\ state' = InitialState(p)
  /\ pc' = "loop"
  /\ decision' = NoDecision
  /\ result' = NoResult
  /\ calls' = 0
  /\ UNCHANGED << endpointRepairWindow, cacheStore, now, ticks, returned >>
  /\ UNCHANGED transportVars

CaNext == CaTransport \/ Plan \/ Act \/ Degrade \/ CaTick \/ CaRestart

CaSpec == CaInit /\ [][CaNext]_vars

\* ------------------------------------------------------------------------
\* Region resolution on its own: resolveNextRegion applied to any current
\* region id, health map and forceInclude list
\* ------------------------------------------------------------------------
HealthTags == {"healthy", "unhealthy", "deprecated"}

\* a current region id that the routing tree does not hold
UnknownRegion == "unknown-region"

RrInit ==
  /\ NoSupervisor
  /\ now = 0
  /\ ticks = 0
  /\ fetches = << >>
  /\ retryBudgetStore = << >>
  /\ consumeLog = << >>
  /\ resolution = [health |-> << >>, forceInclude |-> {},
                   currentRegionId |-> Null, node |-> Null]
  /\ evaluation = << >>

rrFixed == << supervisorVars, now, ticks, fetches, retryBudgetStore, consumeLog,
             evaluation >>

\* the caller's health map gains or changes a tag
RrMark ==
  /\ \E id \in RegionIds \ {ROUTING_TREE.id}, tag \in HealthTags :
       resolution' = [resolution EXCEPT !.health = Put(@, id, tag),
                                        !.currentRegionId = Null, !.node = Null]
  /\ UNCHANGED rrFixed

\* the caller lists one more region in options.forceInclude
RrForce ==
  /\ \E id \in (RegionIds \ {ROUTING_TREE.id}) \ resolution.forceInclude :
       resolution' = [resolution EXCEPT !.forceInclude = @ \cup {id},
                                        !.currentRegionId = Null, !.node = Null]
  /\ UNCHANGED rrFixed

\* resolveNextRegion(currentRegionId, health, { forceInclude }) is called
RrResolve ==
  /\ \E id \in RegionIds \cup {UnknownRegion} :
       resolution' = [resolution EXCEPT
                        !.currentRegionId = id,
                        !.node = resolveNextRegion(id, resolution.health,
                                                   resolution.forceInclude)]
  /\ UNCHANGED rrFixed

RrNext == RrMark \/ RrForce \/ RrResolve

RrSpec == RrInit /\ [][RrNext]_vars

\* ------------------------------------------------------------------------
\* applySchemaAdaptation on payloads with fields (agent/toolkit.ts), called on
\* its own. An object payload is the function from its keys to their values,
\* a field map is the sequence of its entries in the order Object.entries
\* lists them, defaults are the function from their keys to their values.
\* The supervisor specifications above keep the two-valued payloads.
\* ------------------------------------------------------------------------
SaKeys == {"a", "b", "c"}

\* JSON values of a field; "null" is the JSON null
SaValues == {"v1", "null"}

SaDefaultValues == {"dflt"}

ObjectPayload(fields) == [kind |-> "object", fields |-> fields, items |-> << >>]
ArrayPayload(items) == [kind |-> "array", fields |-> << >>, items |-> items]
NullPayload == [kind |-> "null", fields |-> << >>, items |-> << >>]
PrimitivePayload == [kind |-> "primitive", fields |-> << >>, items |-> << >>]

SaObjects == { ObjectPayload(f) : f \in UNION { [S -> SaValues] : S \in SUBSET SaKeys } }

\* payloads: null, a primitive, objects, and lists that hold an object alone
\* or followed by a null, a primitive or a list
SaPayloads ==
  {NullPayload, PrimitivePayload} \cup SaObjects
    \cup { ArrayPayload(<< o >>) : o \in SaObjects }
    \cup UNION { { ArrayPayload(<< o, rest >>) :
                      rest \in {NullPayload, PrimitivePayload, ArrayPayload(<< o >>)} } :
                    o \in SaObjects }

SaEntries == [expected : SaKeys, actual : SaKeys]

\* the field maps: an object has each of its keys once
SaFieldMaps ==
  { m \in UNION { [1..n -> SaEntries] : n \in 0..Cardinality(SaKeys) } :
      \A i \in DOMAIN m, j \in DOMAIN m : m[i].expected = m[j].expected => i = j }

SaDefaults == UNION { [S -> SaDefaultValues] : S \in SUBSET SaKeys }

\* hints === undefined
NoHints == [present |-> FALSE, fieldMap |-> << >>, defaults |-> << >>]

\* a missing fieldMap or defaults is the empty one (hints.fieldMap ?? {})
SaHints ==
  {NoHints} \cup [present : {TRUE}, fieldMap : SaFieldMaps, defaults : SaDefaults]

Reverse(s) == [i \in 1..Len(s) |-> s[Len(s) + 1 - i]]

\* the entries listed last to first
fieldMapEntriesLastFirst(hints) == Reverse(hints.fieldMap)

\* Object.entries(hints.fieldMap ?? {})
fieldMapEntries(hints) == hints.fieldMap

\* null counts as missing too
isUndefinedOrNull(normalized, key) ==
  \/ key \notin DOMAIN normalized
  \/ normalized[key] = "null"

\* normalized[key] === undefined
isUndefined(normalized, key) == key \notin DOMAIN normalized

\* the forEach over the field map entries
RECURSIVE applyFieldMap(_, _)
applyFieldMap(normalized, entries) ==
  IF entries = << >>
  THEN normalized
  ELSE LET expected == Head(entries).expected
           actual == Head(entries).actual
       IN applyFieldMap(IF actual \in DOMAIN normalized
                        THEN Put(normalized, expected, normalized[actual])
                        ELSE normalized,
                        Tail(entries))

\* the forEach over the defaults: each entry writes its own key only, so the
\* order of the entries does not show
applyDefaults(normalized, defaults) ==
  [key \in DOMAIN normalized \cup DOMAIN defaults |->
     IF key \in DOMAIN defaults /\ isUndefined(normalized, key)
     THEN defaults[key]
     ELSE normalized[key]]

RECURSIVE applySchemaAdaptationPayload(_, _)
applySchemaAdaptationPayload(hints, payload) ==
  IF ~hints.present \/ payload.kind = "null"
  THEN payload
  ELSE IF payload.kind = "array"
  THEN ArrayPayload([i \in DOMAIN payload.items |->
                       applySchemaAdaptationPayload(hints, payload.items[i])])
  ELSE IF payload.kind # "object"
  THEN payload
  ELSE ObjectPayload(applyDefaults(applyFieldMap(payload.fields, fieldMapEntries(hints)),
                                   hints.defaults))

\* a caller holds hints and a payload
SaInit ==
  /\ NoSupervisor
  /\ now = 0
  /\ ticks = 0
  /\ fetches = << >>
  /\ retryBudgetStore = << >>
  /\ consumeLog = << >>
  /\ resolution = << >>
  /\ evaluation \in [hints : SaHints, payload : SaPayloads, applied : {0},
                     once : {NullPayload}, twice : {NullPayload}]

saFixed == << supervisorVars, now, ticks, fetches, retryBudgetStore, consumeLog,
             resolution >>

\* applySchemaAdaptation(hints, payload)
SaApply ==
  /\ evaluation.applied = 0
  /\ evaluation' = [evaluation EXCEPT
                      !.applied = 1,
                      !.once = applySchemaAdaptationPayload(evaluation.hints,
                                                            evaluation.payload)]
  /\ UNCHANGED saFixed

\* applySchemaAdaptation(hints, <the payload returned before>), as adaptSchema
\* does with the cached response on every adapt_schema decision
SaApplyAgain ==
  /\ evaluation.applied = 1
  /\ evaluation' = [evaluation EXCEPT
                      !.applied = 2,
                      !.twice = applySchemaAdaptationPayload(evaluation.hints,
                                                             evaluation.once)]
  /\ UNCHANGED saFixed

SaNext == SaApply \/ SaApplyAgain

SaSpec == SaInit /\ [][SaNext]_vars

\* ------------------------------------------------------------------------
\* The heuristic planner (agent/geminiPlanner.ts, heuristicDecision) applied
\* to the observations the supervisor builds: error.status and error.body of
\* the failed call, with triggerHints the same body (agent/index.ts).
\* ------------------------------------------------------------------------
\* error.status; 0 stands for an error without status
HpStatuses == {0, 401, 402, 404, 422, 429, 500, 503}

\* the keys a schema hint object may carry, as detectSchemaHints reads them
FieldMapKeys == << "field_map", "fieldMap", "mapping", "fields" >>
DefaultsKeys == << "defaults", "fallbacks" >>

\* a schema_hint or schema property: absent, or an object with some keys
NoHint == [present |-> FALSE, keys |-> {}]
HpHintObjects ==
  [present : {TRUE},
   keys : { {}, {"field_map"}, {"fieldMap"}, {"mapping"}, {"fields"}, {"defaults"},
            {"fallbacks"}, {"field_map", "fallbacks"}, {"mapping", "fields"} }]
HpHints == {NoHint} \cup HpHintObjects

\* detail.retry_budget_remaining: absent, a number, or a string
NoNumber == [type |-> "undefined", value |-> 0]
HpBudgets ==
  {NoNumber, [type |-> "string", value |-> 0]}
    \cup [type : {"number"}, value : {-1, 0, 1, 2}]

\* detail.error: a message as its words, "" when the property is absent
HpMessages ==
  { << >>, << "Quota", "exceeded" >>, << "RATE", "limited" >>, << "usage", "limit" >>,
    << "cannot", "generate" >>, << "upstream", "down" >> }

\* String.prototype.includes on a lower-case word of these messages
includes(word, needle) ==
  \/ word = needle
  \/ word = "generate" /\ needle = "rate"

\* error.body: undefined, a string, or an object whose detail property is
\* absent, a string or an object
NoBody ==
  [kind |-> "undefined", detail |-> "absent", detailHint |-> NoHint, detailSchema |-> NoHint,
   retryBudgetRemaining |-> NoNumber, error |-> << >>, schemaHint |-> NoHint, schema |-> NoHint]
TextBody == [NoBody EXCEPT !.kind = "string"]
EmptyObject == [NoBody EXCEPT !.kind = "object"]

HpBodies ==
  {NoBody, TextBody}
    \cup { [EmptyObject EXCEPT !.detail = d, !.schemaHint = h, !.schema = sc] :
             d \in {"absent", "string"}, h \in HpHints,
             sc \in {NoHint, [present |-> TRUE, keys |-> {"mapping"}]} }
    \cup { [EmptyObject EXCEPT !.detail = "object", !.detailHint = h, !.detailSchema = sc,
                               !.retryBudgetRemaining = n, !.error = m, !.schemaHint = th] :
             h \in HpHints, sc \in {NoHint, [present |-> TRUE, keys |-> {"defaults"}]},
             n \in HpBudgets, m \in HpMessages,
             th \in {NoHint, [present |-> TRUE, keys |-> {"field_map"}]} }

\* the observation of a failed cycle: triggerHints is error.body
HpObservations ==
  { [error |-> [status |-> st, body |-> b], triggerHints |-> b] :
      st \in HpStatuses, b \in HpBodies }

\* getObservationDetail: body.detail when it is an object, else the body
\* when that is an object, else undefined
getObservationDetail(observation) ==
  LET body == observation.error.body
  IN IF body.kind # "object"
     THEN [defined |-> FALSE, schema_hint |-> NoHint, schema |-> NoHint]
     ELSE IF body.detail = "object"
     THEN [defined |-> TRUE, schema_hint |-> body.detailHint, schema |-> body.detailSchema]
     ELSE [defined |-> TRUE, schema_hint |-> body.schemaHint, schema |-> body.schema]

\* a || b || ... over the properties of a hint object: the first key of the
\* list that the object carries, "undefined" when it carries none
FirstKey(hint, keys) ==
  IF \E i \in DOMAIN keys : keys[i] \in hint.keys
  THEN keys[CHOOSE i \in DOMAIN keys :
              /\ keys[i] \in hint.keys
              /\ \A j \in DOMAIN keys : keys[j] \in hint.keys => i <= j]
  ELSE "undefined"

NoSchemaHints == [found |-> FALSE, fieldMap |-> "undefined", defaults |-> "undefined"]

\* detectSchemaHints: null, or { fieldMap, defaults } named by the keys they
\* were read from
detectSchemaHints(observation) ==
  LET detail == getObservationDetail(observation)
      trigger == IF observation.triggerHints.kind = "object"
                 THEN observation.triggerHints.schemaHint
                 ELSE NoHint
      schemaHint == IF detail.schema_hint.present THEN detail.schema_hint
                    ELSE IF detail.schema.present THEN detail.schema
                    ELSE trigger
      fieldMap == FirstKey(schemaHint, FieldMapKeys)
      defaults == FirstKey(schemaHint, DefaultsKeys)
  IN IF ~schemaHint.present
     THEN NoSchemaHints
     ELSE IF fieldMap = "undefined" /\ defaults = "undefined"
     THEN NoSchemaHints
     ELSE [found |-> TRUE, fieldMap |-> fieldMap, defaults |-> defaults]

\* getRetryBudgetRemaining: detail.retry_budget_remaining when body.detail is
\* an object and the value is a number
getRetryBudgetRemaining(observation) ==
  LET body == observation.error.body
  IN IF body.kind = "object" /\ body.detail = "object"
        /\ body.retryBudgetRemaining.type = "number"
     THEN body.retryBudgetRemaining
     ELSE NoNumber

\* a quota test that does not look for "rate"
isQuotaErrorWithoutRate(observation) ==
  LET body == observation.error.body
  IN /\ body.kind = "object"
     /\ body.detail = "object"
     /\ \E i \in DOMAIN body.error :
          \E needle \in {"quota", "limit"} : includes(toLowerCase(body.error[i]), needle)

\* isQuotaError: a string detail has no error property, so its message is ''
isQuotaError(observation) ==
  LET body == observation.error.body
  IN /\ body.kind = "object"
     /\ body.detail = "object"
     /\ \E i \in DOMAIN body.error :
          \E needle \in {"quota", "rate", "limit"} :
            includes(toLowerCase(body.error[i]), needle)

\* a HealingDecision of the heuristic planner
HpDecision(action, kind) ==
  [action |-> action, params |-> kind, schemaHints |-> NoSchemaHints,
   delaySeconds |-> 0, body |-> NoBody]

FALLBACK_ORDER == << HpDecision("retry", "undefined") >>

heuristicDecision(observation) ==
  LET schemaHints == detectSchemaHints(observation)
      status == observation.error.status
      retryRemaining == getRetryBudgetRemaining(observation)
  IN IF schemaHints.found
     THEN [HpDecision("adapt_schema", "schemaHints") EXCEPT !.schemaHints = schemaHints]
     ELSE IF status = 401
     THEN HpDecision("refresh_token", "undefined")
     ELSE IF status = 503
     THEN IF retryRemaining.type = "number" /\ retryRemaining.value <= 0
          THEN [HpDecision("queue_recovery", "delaySeconds") EXCEPT !.delaySeconds = 30]
          ELSE IF retryRemaining.type = "number" /\ retryRemaining.value <= 1
          THEN HpDecision("use_mock", "undefined")
          ELSE HpDecision("switch_region", "undefined")
     ELSE IF status = 422
     THEN [HpDecision("rewrite_request", "triggerHints") EXCEPT
             !.body = IF observation.triggerHints.kind = "undefined"
                      THEN EmptyObject
                      ELSE observation.triggerHints]
     ELSE IF status = 429
     THEN IF isQuotaError(observation)
          THEN HpDecision("use_mock", "undefined")
          ELSE [HpDecision("queue_recovery", "delaySeconds") EXCEPT !.delaySeconds = 15]
     ELSE IF status = 402
     THEN HpDecision("use_mock", "undefined")
     ELSE FALLBACK_ORDER[1]

\* the planner holds the last observation of the state
HpInit ==
  /\ NoSupervisor
  /\ now = 0
  /\ ticks = 0
  /\ fetches = << >>
  /\ retryBudgetStore = << >>
  /\ consumeLog = << >>
  /\ resolution = << >>
  /\ evaluation \in [observation : HpObservations, decided : {FALSE},
                     decision : {HpDecision("none", "undefined")}]

\* getHealingDecision without an API key, or after the model call failed:
\* return heuristicDecision(recentObservation)
HpDecide ==
  /\ ~evaluation.decided
  /\ evaluation' = [evaluation EXCEPT !.decided = TRUE,
                                      !.decision = heuristicDecision(evaluation.observation)]
  /\ UNCHANGED saFixed

HpNext == HpDecide

HpSpec == HpInit /\ [][HpNext]_vars

\* ------------------------------------------------------------------------
\* The prompt of the LLM planner (agent/geminiPlanner.ts): getHealingDecision
\* builds the planner payload from the state and buildPrompt prints it. Two
\* runs are held side by side whose states differ in the token at most.
\* ------------------------------------------------------------------------
\* state.token: "" when the provider issued none
PpTokens == {"", "tok-1", "tok-2"}

\* the names of state.options.headers as the Headers object lists them
PpHeaderNames == {"authorization", "proxy-authorization", "x-trace"}

\* state.options.body: absent, a string of at most 400 characters, a longer
\* string, or another BodyInit
PpBodies == {"absent", "text", "long_text", "blob"}

\* the parts of a HealingState that the payload is built from, the token aside
PpStates ==
  [url : {"/external-api"}, cyclesUsed : 0..1, regionIndex : 0..1,
   options : [method : {"undefined", "post"}, headers : SUBSET PpHeaderNames,
              body : PpBodies]]

\* String.prototype.toUpperCase on the methods of this model
toUpperCase(method) == IF method = "post" THEN "POST" ELSE method

\* summarizeRequest(state)
summarizeRequest(st) ==
  [method |-> IF st.options.method = "undefined" THEN "GET"
              ELSE toUpperCase(st.options.method),
   url |-> st.url,
   headers |-> st.options.headers \ {"authorization", "proxy-authorization"},
   bodyPreview |-> IF st.options.body = "long_text" THEN "long_text_0_400"
                   ELSE st.options.body]

\* the plannerPayload of getHealingDecision as JSON.stringify prints it:
\* { ...state, tokenKnown, options: undefined } keeps every property of the
\* state but options, whose undefined value is left out
plannerPayload(st, token) ==
  [state |-> [token |-> token, tokenKnown |-> token # "", url |-> st.url,
              cyclesUsed |-> st.cyclesUsed, regionIndex |-> st.regionIndex],
   request |-> summarizeRequest(st)]

\* buildPrompt(payload): the fixed text is left out, the two printed values
\* are kept
buildPrompt(payload) == [requestSummary |-> payload.request, context |-> payload]

NoPrompt == buildPrompt(plannerPayload(CHOOSE st \in PpStates : TRUE, ""))

PpInit ==
  /\ NoSupervisor
  /\ now = 0
  /\ ticks = 0
  /\ fetches = << >>
  /\ retryBudgetStore = << >>
  /\ consumeLog = << >>
  /\ resolution = << >>
  /\ evaluation \in [state : PpStates, token : [1..2 -> PpTokens],
                     built : {{}}, prompt : {[r \in 1..2 |-> NoPrompt]}]

\* run r reaches the model call of getHealingDecision
PpBuild(r) ==
  /\ r \notin evaluation.built
  /\ evaluation' =
       [evaluation EXCEPT
          !.built = @ \cup {r},
          !.prompt[r] = buildPrompt(plannerPayload(evaluation.state, evaluation.token[r]))]
  /\ UNCHANGED saFixed

PpNext == PpBuild(1) \/ PpBuild(2)

PpSpec == PpInit /\ [][PpNext]_vars

\* ------------------------------------------------------------------------
\* queue_recovery called directly (agent/toolkit.ts, queueForRecovery) on
\* states whose request headers were written by the caller in any letter
\* case and extended by earlier rewrite_request actions
\* ------------------------------------------------------------------------
\* header names as the caller writes them in options.headers
QrCallerHeaders == {"Authorization", "authorization", "COOKIE", "Proxy-Authorization", "X-Trace"}

\* header names as the planner writes them in params.headers
QrPlannerHeaders == {"Authorization", "cookie", "X-Trace"}

NoEnvelope == [url |-> NoUrl, headers |-> {}, body |-> "none"]

QrInit ==
  /\ params = CHOOSE q \in TkParams : q.body = "json_object"
  /\ \E names \in SUBSET QrCallerHeaders :
       state = [InitialState(params) EXCEPT !.options.headers.extra = names]
  /\ pc = "toolkit"
  /\ decision = NoDecision
  /\ result = NoResult
  /\ calls = 0
  /\ endpointRepairWindow = [k \in EndpointKeys |-> NoWindow]
  /\ cacheStore = {}
  /\ now = 0
  /\ ticks = 0
  /\ returned = NoReturn
  /\ fetches = << >>
  /\ retryBudgetStore = << >>
  /\ consumeLog = << >>
  /\ resolution = << >>
  /\ evaluation = [posted |-> FALSE, envelope |-> NoEnvelope, answer |-> "none"]

qrFixed == << decision, result, params, calls, cacheStore, now, ticks, returned,
             fetches, retryBudgetStore, consumeLog, resolution >>

\* executeAction('rewrite_request', state, context, { body, headers })
QrRewrite ==
  /\ pc = "toolkit"
  /\ \E names \in SUBSET QrPlannerHeaders :
       LET out == executeAction("rewrite_request", state,
                                [body |-> "json_object", headers |-> names, hints |-> FALSE],
                                [credential |-> "tok-issued", mock |-> "absent",
                                 queue |-> "ok"],
                                endpointRepairWindow, now)
       IN /\ state' = out.updatedState
          /\ endpointRepairWindow' = out.window
  /\ UNCHANGED << pc, evaluation >>
  /\ UNCHANGED qrFixed

\* executeAction('queue_recovery', state, context, params): the envelope is
\* posted and the collaborator answers, or the POST raises
QrQueue ==
  /\ pc = "toolkit"
  /\ \E answer \in {"ok", "non_2xx", "network_error"} :
       LET out == executeAction("queue_recovery", state, NoDecision.params,
                                [credential |-> "tok-issued", mock |-> "absent",
                                 queue |-> answer],
                                endpointRepairWindow, now)
       IN /\ evaluation' = [posted |-> TRUE, envelope |-> queueEnvelope(state),
                            answer |-> answer]
          /\ state' = IF out.thrown THEN state ELSE out.updatedState
          /\ pc' = IF out.thrown THEN "thrown" ELSE "returned"
  /\ UNCHANGED endpointRepairWindow
  /\ UNCHANGED qrFixed

QrNext == QrRewrite \/ QrQueue

QrSpec == QrInit /\ [][QrNext]_vars

\* ------------------------------------------------------------------------
\* The Authorization header of the supervisor's Transport calls
\* (agent/index.ts, runHealingAgent): the token of the state is overlaid on
\* the headers of the request at every cycle
\* ------------------------------------------------------------------------
\* evaluation holds the header of the latest call (sent), the token that
\* was set last when that call was made (last) and by now (set), and whether
\* the action before the call (carried) or the latest action (refreshed) was
\* refresh_token.
\* what tokenProvider resolves to: "" when it issues no token
AuTokens == {"", "tok-initial"}

\* header names of the caller's request and of the planner's rewrite
AuHeaderNames == {"Authorization", "X-Trace"}

\* the value of an Authorization header
Bearer(token) == [scheme |-> "Bearer", credential |-> token]

\* the Authorization header that the request options carry themselves
RequestAuthorization == [scheme |-> "Basic", credential |-> "request"]

NoAuthorization == [scheme |-> "", credential |-> ""]

\* an overlay that leaves a header of the request in place
headerBagAuthorizationKeepsRequest(st) ==
  IF "authorization" \in toHeaders(st.options.headers.extra) THEN RequestAuthorization
  ELSE IF st.token # "" THEN Bearer(st.token)
  ELSE NoAuthorization

\* headerBag.get('Authorization') after new Headers(state.options.headers)
\* and, if (state.token), headerBag.set('Authorization', `Bearer ${state.token}`)
headerBagAuthorization(st) ==
  IF st.token # "" THEN Bearer(st.token)
  ELSE IF "authorization" \in toHeaders(st.options.headers.extra) THEN RequestAuthorization
  ELSE NoAuthorization

\* the decisions that touch the token or the headers, and retry
AuActions == {"retry", "refresh_token", "rewrite_request"}

AuInit ==
  /\ \E h \in BOOLEAN :
       params = [(CHOOSE q \in TkParams : q.body = "json_object")
                   EXCEPT !.tokenRecoveryHandler = h]
  /\ \E token \in AuTokens, names \in SUBSET AuHeaderNames :
       /\ state = [InitialState(params) EXCEPT !.token = token,
                                               !.options.headers.extra = names]
       /\ evaluation = [set |-> token, last |-> token, sent |-> NoAuthorization,
                        calls |-> 0, refreshed |-> FALSE, carried |-> FALSE]
  /\ pc = "loop"
  /\ decision = NoDecision
  /\ result = NoResult
  /\ calls = 0
  /\ endpointRepairWindow = [k \in EndpointKeys |-> NoWindow]
  /\ cacheStore = {}
  /\ now = 0
  /\ ticks = 0
  /\ returned = NoReturn
  /\ fetches = << >>
  /\ retryBudgetStore = << >>
  /\ consumeLog = << >>
  /\ resolution = << >>

auFixed == << result, params, calls, cacheStore, now, ticks, returned, fetches,
             retryBudgetStore, consumeLog, resolution >>

\* one loop iteration up to the Transport result: the header is built from
\* the state, smartFetch makes its one exchange, and the token recovery
\* handler, if it is called and yields a token, writes it into the state
AuTransport ==
  /\ pc = "loop"
  /\ LoopCondition(state)
  /\ \E http \in {200, 401, 503}, recovery \in {"token", "empty", "throws"} :
       LET fetched == smartFetch(http, params.tokenRecoveryHandler, recovery)
           st0 == AfterRecovery(state, fetched)
       IN /\ evaluation' = [evaluation EXCEPT
                              !.sent = headerBagAuthorization(state),
                              !.last = evaluation.set,
                              !.calls = @ + 1,
                              !.carried = evaluation.refreshed,
                              !.refreshed = FALSE,
                              !.set = IF fetched.refreshed THEN "tok-recovered" ELSE @]
          /\ IF fetched.error = NoError
             THEN /\ state' = state
                  /\ pc' = "done"
             ELSE /\ state' = Observe(st0, fetched.error)
                  /\ pc' = "plan"
  /\ UNCHANGED << decision, endpointRepairWindow >>
  /\ UNCHANGED auFixed

\* the rest of the iteration: the planner's decision, the decisionLog
\* append, executeAction and the interventions append
AuAct ==
  /\ pc = "plan"
  /\ \E action \in AuActions, names \in SUBSET AuHeaderNames,
        credential \in {"tok-issued", "", "fail"} :
       LET logged0 == [state EXCEPT !.decisionLog =
                         Append(state.decisionLog,
                                [cycle |-> state.cyclesUsed - 1, action |-> action])]
           out == executeAction(action, logged0,
                                [body |-> "json_object", headers |-> names, hints |-> FALSE],
                                [credential |-> credential, mock |-> "absent",
                                 queue |-> "ok"],
                                endpointRepairWindow, now)
       IN /\ (action # "refresh_token" => credential = "tok-issued")
          /\ (action # "rewrite_request" => names = {})
          /\ IF out.thrown
             THEN /\ pc' = "thrown"
                  /\ state' = logged0
                  /\ UNCHANGED << endpointRepairWindow, evaluation >>
             ELSE /\ pc' = "loop"
                  /\ state' = [out.updatedState EXCEPT !.interventions =
                                 Append(out.updatedState.interventions, out.intervention)]
                  /\ endpointRepairWindow' = out.window
                  /\ evaluation' = [evaluation EXCEPT
                                      !.refreshed = (action = "refresh_token"),
                                      !.set = IF action = "refresh_token"
                                              THEN credential ELSE @]
  /\ UNCHANGED decision
  /\ UNCHANGED auFixed

AuNext == AuTransport \/ AuAct

AuSpec == AuInit /\ [][AuNext]_vars

\* ------------------------------------------------------------------------
\* Runs that answer every failure by switch_region (agent/index.ts and
\* switchRegion): the health map is the one the failed cycles of the run
\* leave, over the default number of cycles
\* ------------------------------------------------------------------------
\* maxCycles = 6, the default of runHealingAgent
DefaultMaxCycles == 6

\* statuses of a failed cycle: one that tags no region, 410 and 503
SwStatuses == {401, 410, 503}

SwInit ==
  /\ \E r \in {DefaultRegions, << "ep-custom" >>} :
       params = [url |-> RunUrl, body |-> "json_object", regions |-> r,
                 maxCycles |-> DefaultMaxCycles, tokenRecoveryHandler |-> FALSE,
                 degradation |-> DefaultDegradation]
  /\ state = InitialState(params)
  /\ pc = "loop"
  /\ decision = NoDecision
  /\ result = NoResult
  /\ calls = 0
  /\ endpointRepairWindow = [k \in EndpointKeys |-> NoWindow]
  /\ cacheStore = {}
  /\ now = 0
  /\ ticks = 0
  /\ returned = NoReturn
  /\ NoTransport

swFixed == << decision, result, params, calls, endpointRepairWindow, cacheStore, now,
             ticks >>

\* one loop iteration whose Transport call fails: the observation, the
\* cycle count and the health tag of the region
SwTransport ==
  /\ pc = "loop"
  /\ LoopCondition(state)
  /\ \E http \in SwStatuses :
       state' = Observe(state, smartFetch(http, FALSE, "empty").error)
  /\ pc' = "plan"
  /\ UNCHANGED returned
  /\ UNCHANGED swFixed
  /\ UNCHANGED transportVars

\* the rest of the iteration with the decision switch_region: the
\* decisionLog append, executeAction and the interventions append
SwSwitch ==
  /\ pc = "plan"
  /\ LET logged0 == [state EXCEPT !.decisionLog =
                       Append(state.decisionLog,
                              [cycle |-> state.cyclesUsed - 1, action |-> "switch_region"])]
         out == executeAction("switch_region", logged0, NoDecision.params,
                              [credential |-> "tok-issued", mock |-> "absent",
                               queue |-> "ok"],
                              endpointRepairWindow, now)
     IN /\ state' = [out.updatedState EXCEPT !.interventions =
                       Append(out.updatedState.interventions, out.intervention)]
        /\ returned' = [action |-> "switch_region", body |-> "none",
                        intervention |-> out.intervention]
  /\ pc' = "loop"
  /\ UNCHANGED swFixed
  /\ UNCHANGED transportVars

SwNext == SwTransport \/ SwSwitch

SwSpec == SwInit /\ [][SwNext]_vars

\* ------------------------------------------------------------------------
\* Properties
\* ------------------------------------------------------------------------
Returned == pc = "done"
Ended == pc \in {"done", "thrown"}

\* steps the invocation can still take: three per remaining cycle, then the
\* degradation pipeline
Remaining ==
  LET left == IF state.maxCycles > state.cyclesUsed
              THEN state.maxCycles - state.cyclesUsed ELSE 0
  IN CASE pc = "loop" -> 3 * left + 1
       [] pc = "plan" -> 3 * left + 3
       [] pc = "act" -> 3 * left + 2
       [] pc = "degrade" -> 1
       [] OTHER -> 0

\* until the run has ended one of its steps is possible
Progress == ~Ended => ENABLED Next

C1_Budget ==
  /\ calls <= state.maxCycles
  /\ Remaining = 0 <=> Ended

\* C1: every run ends when each collaborator call returns (every step lowers
\* the number of steps that remain, which is 0 only once the run has ended);
\* it makes at most maxCycles Transport calls; cyclesUsed never decreases (it
\* grows by 1 in a failed cycle or jumps to maxCycles on abort) and no
\* Transport call starts once cyclesUsed >= maxCycles
C1_BoundedRun ==
  /\ C1_Budget
  /\ [][/\ C1_Budget'
         /\ Remaining' < Remaining
         /\ state'.cyclesUsed \in {state.cyclesUsed, state.cyclesUsed + 1, state.maxCycles}
         /\ state'.cyclesUsed >= state.cyclesUsed
         /\ (calls' # calls => state.cyclesUsed < state.maxCycles)]_vars

\* a run that used its whole budget of Transport calls and ended
C1_Witness ==
  /\ Ended
  /\ state.maxCycles = MaxCyclesArg
  /\ calls = state.maxCycles
  /\ state.cyclesUsed = state.maxCycles


Last(seq) == seq[Len(seq)]

\* an abort intervention was applied: an abort decision, an action the
\* toolkit does not know, or a denied repair guard
AbortApplied ==
  \E i \in 1..Len(state.interventions) : state.interventions[i].action = "abort"

\* the loop was ended by a denied repair guard
GuardFailed ==
  /\ Len(state.interventions) > 0
  /\ Last(state.interventions).action = "abort"
  /\ Last(state.interventions).reason \in {"max_repair_attempts", "repair_throttle"}

\* C2 as stated: the state of every returned run has as many observations as
\* cycles used
C2_AttemptsEqualCycles ==
  Returned => Len(state.attempts) = state.cyclesUsed

\* C2 amended: observations and cycles used agree in every state of a run
\* until an abort intervention is applied; from then on cyclesUsed is
\* maxCycles and the observations are at most that many
C2_AttemptsVsCycles ==
  IF AbortApplied
  THEN state.cyclesUsed = state.maxCycles /\ Len(state.attempts) <= state.cyclesUsed
  ELSE Len(state.attempts) = state.cyclesUsed

\* a returned run that an abort ended before its budget was used
C2_Witness ==
  /\ Returned
  /\ AbortApplied
  /\ Len(state.attempts) < state.cyclesUsed

\* C3: whatever the collaborators do, the run returns a result and never
\* raises
C3_NeverThrows == pc # "thrown"

\* C4 as stated: every success return carries degradation none
C4_SuccessIsUndegraded ==
  Returned /\ result.success => result.degraded.degradation = "none"

\* C4 amended: every success return through the live path (a Transport 2xx)
\* carries degradation none, in the result and in the returned state
C4_LiveSuccessIsUndegraded ==
  Returned /\ result.via = "live" =>
    /\ result.success
    /\ result.degraded.degradation = "none"
    /\ state.degraded = result.degraded

\* a live success after a failed cycle
C4_Witness ==
  /\ Returned
  /\ result.via = "live"
  /\ state.cyclesUsed > 0

\* C5 as stated: degradation is none exactly in the live-success results
C5_NoneIffLive ==
  Returned => (result.degraded.degradation = "none" <=> result.via = "live")

\* C5 amended: a live success and a give-up (success = false) both report
\* degradation none; every result with another degradation is a success
\* obtained through a fallback (use_mock or the degradation pipeline), and a
\* stale-cache fallback reports stale-cache
C5_DegradationByPath ==
  Returned =>
    /\ result.via \in {"live", "gave_up"} => result.degraded.degradation = "none"
    /\ result.via = "gave_up" <=> ~result.success
    /\ result.degraded.degradation # "none" =>
         result.success /\ result.via \in {"use_mock", "fallback"}
    /\ result.degraded.source = "cache" => result.degraded.degradation = "stale-cache"

\* a run that gave up and reports degradation none
C5_Witness ==
  /\ Returned
  /\ result.via = "gave_up"
  /\ ~result.success
  /\ result.degraded.degradation = "none"
  /\ Len(state.attempts) > 0

\* C6: a use_mock decision makes the run return at once with success and the
\* degraded response the toolkit stored; after a queue_recovery or abort
\* decision the run makes no further Transport call
C6_TerminalDecisions ==
  [][/\ (pc = "act" /\ decision.action = "use_mock") =>
          /\ pc' = "done"
          /\ result'.success
          /\ result'.degraded = state'.degraded
     /\ (/\ Len(state.decisionLog) > 0
         /\ Last(state.decisionLog).action \in {"queue_recovery", "abort"}
         /\ pc # "act") => calls' = calls]_vars

\* C9 as stated: a run whose loop a denied repair guard ended returns
\* success = false
C9_GuardFailureFails ==
  Returned /\ GuardFailed => ~result.success

\* the degradation pipeline of the run has a fresh cache entry to serve
StaleHit ==
  /\ params.degradation.enableStaleCache
  /\ recallResponse(cacheStore,
                    makeCacheKey(params, IF Len(state.regionHistory) = 0 THEN Null
                                         ELSE Last(state.regionHistory)),
                    params.degradation.staleTtlMs, now) # {}

\* C9 amended: a run whose loop a denied repair guard ended goes through the
\* degradation pipeline: it returns success = false when the pipeline has no
\* fallback (no fresh cache entry or stale cache disabled, and mock disabled
\* or failing), and otherwise success = true with that fallback
C9_GuardFailureDegrades ==
  Returned /\ GuardFailed =>
    /\ state.cyclesUsed = state.maxCycles
    /\ result.via \in {"fallback", "gave_up"}
    /\ result.success <=> result.via = "fallback"
    /\ StaleHit => result.success /\ result.degraded.degradation = "stale-cache"
    /\ (~StaleHit /\ ~params.degradation.enableMock) => ~result.success
    /\ (result.success /\ ~StaleHit) => result.degraded.source = "llm-mock"

\* a guard-ended run that gave up, its mock being disabled
C9_Witness ==
  /\ Returned
  /\ GuardFailed
  /\ ~result.success
  /\ ~params.degradation.enableMock

\* C7: repairAttempts never exceeds MAX_REPAIR_ATTEMPTS, whatever guarded
\* actions are executed on a state
C7_RepairAttemptsCapped == state.repairAttempts <= MAX_REPAIR_ATTEMPTS

\* a state at the cap on which a further guarded action was denied
C7_Witness ==
  /\ state.repairAttempts = MAX_REPAIR_ATTEMPTS
  /\ returned.intervention.reason = "max_repair_attempts"

\* a direct executeAction call is being made
TkCall == calls' = calls + 1

\* the repair window of the state's endpoint admits one more guarded action
WindowAdmits ==
  LET existing == endpointRepairWindow[getEndpointKey(state.url)]
  IN \/ ~existing.present
     \/ now - existing.windowStart > REPAIR_WINDOW_MS
     \/ existing.count < REPAIR_WINDOW_LIMIT

\* a guarded action executed at the cap changes neither the request nor
\* repairAttempts and returns an abort with cyclesUsed = maxCycles
C8_DeniedAtCap ==
  (TkCall /\ state.repairAttempts >= MAX_REPAIR_ATTEMPTS) =>
    /\ state'.options = state.options
    /\ state'.repairAttempts = state.repairAttempts
    /\ returned'.intervention.action = "abort"
    /\ state'.cyclesUsed = state'.maxCycles

RewriteWithBody ==
  TkCall /\ returned'.action = "rewrite_request" /\ returned'.body # "none"

\* C8 as stated: a guarded action at the cap is denied as above, and a
\* rewrite_request with a body below the cap adds one to repairAttempts
C8_CapAndCount ==
  [][/\ C8_DeniedAtCap
     /\ (RewriteWithBody /\ state.repairAttempts < MAX_REPAIR_ATTEMPTS) =>
          state'.repairAttempts = state.repairAttempts + 1]_vars

\* C8 amended: a guarded action at the cap is denied as above; a
\* rewrite_request with a body below the cap adds one to repairAttempts (and
\* sets the body and the repair header) when the endpoint repair window
\* admits it, and is denied in the same way when the window is full
C8_CapAndCountInWindow ==
  [][/\ C8_DeniedAtCap
     /\ (RewriteWithBody /\ state.repairAttempts < MAX_REPAIR_ATTEMPTS /\ WindowAdmits) =>
          /\ state'.repairAttempts = state.repairAttempts + 1
          /\ state'.options.body = returned'.body
          /\ state'.options.headers.repairAttempt = state'.repairAttempts
          /\ state'.cyclesUsed = state.cyclesUsed
     /\ (RewriteWithBody /\ state.repairAttempts < MAX_REPAIR_ATTEMPTS /\ ~WindowAdmits) =>
          /\ state'.options = state.options
          /\ state'.repairAttempts = state.repairAttempts
          /\ returned'.intervention.action = "abort"
          /\ state'.cyclesUsed = state'.maxCycles]_vars

\* two rewrites took repairAttempts to 2 and the third was denied at the cap
C8_Witness ==
  /\ calls = 3
  /\ returned.action = "rewrite_request"
  /\ returned.intervention.reason = "max_repair_attempts"
  /\ state.repairAttempts = 2
  /\ state.options.headers.repairAttempt = 2
  /\ state.cyclesUsed = state.maxCycles

WindowWithinLimit ==
  \A k \in EndpointKeys : endpointRepairWindow[k].count <= REPAIR_WINDOW_LIMIT

\* C10: the counter of every endpoint key stays at or below
\* REPAIR_WINDOW_LIMIT, and a guarded action for a key whose counter is at the
\* limit inside its window is denied and leaves the counter alone
C10_WindowLimit ==
  /\ WindowWithinLimit
  /\ [][/\ WindowWithinLimit'
        /\ (TkCall /\ ~WindowAdmits) =>
             /\ returned'.intervention.action = "abort"
             /\ endpointRepairWindow' = endpointRepairWindow
             /\ state'.repairAttempts = state.repairAttempts]_vars

\* the counter of a key is at the limit and a guarded action was throttled
C10_Witness ==
  /\ \E k \in EndpointKeys : endpointRepairWindow[k].count = REPAIR_WINDOW_LIMIT
  /\ returned.intervention.reason = "repair_throttle"

\* the grants of a key made since its stored window was opened
GrantsInStoredWindow(k) ==
  SelectSeq(consumeLog[k], LAMBDA t : t >= retryBudgetStore[k].windowStart)

\* C11 as stated: in every interval of length windowMs that ends now, the
\* consumes of a key that returned true are at most its limit
C11_RollingLimit ==
  \A k \in BudgetKeys : Len(RecentGrants(consumeLog, k, now)) <= BudgetOf(k).limit

\* C11 amended: within one stored window of a key the consumes that returned
\* true are at most its limit (they are what the bucket counts), and an
\* interval of length windowMs, which meets at most two stored windows, holds
\* at most twice the limit
C11_StoredWindowLimit ==
  \A k \in BudgetKeys :
    /\ retryBudgetStore[k].count <= BudgetOf(k).limit
    /\ Len(GrantsInStoredWindow(k)) <= retryBudgetStore[k].count
    /\ (retryBudgetStore[k].present
         /\ now - retryBudgetStore[k].windowStart < windowMsOf(BudgetOf(k)))
          => Len(GrantsInStoredWindow(k)) = retryBudgetStore[k].count
    /\ Len(RecentGrants(consumeLog, k, now)) <= 2 * BudgetOf(k).limit

\* a key whose grants of the last windowMs exceed its limit because a new
\* stored window was opened
C11_Witness ==
  \E k \in BudgetKeys :
    /\ Len(RecentGrants(consumeLog, k, now)) > BudgetOf(k).limit
    /\ retryBudgetStore[k].count = BudgetOf(k).limit
    /\ Len(GrantsInStoredWindow(k)) = BudgetOf(k).limit

\* the reasons with which ensureRepairAllowance denies
GuardDenials == {"max_repair_attempts", "repair_throttle"}

RunWindow == endpointRepairWindow[getEndpointKey(RunUrl)]

\* C12: with two smartFetch calls and two supervisor invocations overlapping,
\* every grant of the retry budget store is counted (the grants of a key
\* equal its count, which stays within the limit), and every guarded action
\* either is admitted below REPAIR_WINDOW_LIMIT and counted once in the
\* endpoint repair window, or is denied and leaves the window alone
C12_AtomicCheckAndIncrement ==
  [][ /\ \A k \in BudgetKeys :
           /\ retryBudgetStore'[k].count <= BudgetOf(k).limit
           /\ Len(consumeLog'[k]) = retryBudgetStore'[k].count
           /\ Len(consumeLog'[k]) <= Len(consumeLog[k]) + 1
      /\ RunWindow'.count <= REPAIR_WINDOW_LIMIT
      /\ calls' = calls + 1 =>
           IF returned'.intervention.reason \in GuardDenials
           THEN endpointRepairWindow' = endpointRepairWindow
           ELSE /\ RunWindow.count < REPAIR_WINDOW_LIMIT
                /\ RunWindow'.count = RunWindow.count + 1 ]_vars

\* one slot was left in each store: caller a took the last grant of the key
\* and still sleeps before its retry while caller b was denied on the same
\* key; invocation i1 took the last slot of the window and i2 was throttled
C12_Witness ==
  /\ fetches["a"].phase = "sleeping"
  /\ fetches["a"].last.consumed = "granted"
  /\ fetches["b"].last.consumed = "denied"
  /\ fetches["a"].config.retryBudget = fetches["b"].config.retryBudget
  /\ fetches["a"].config.retryBudget.limit = 1
  /\ RunWindow.count = REPAIR_WINDOW_LIMIT
  /\ state["i1"].repairAttempts = 1
  /\ state["i2"].repairAttempts = 0
  /\ returned.intervention.reason = "repair_throttle"

\* the candidates of a resolution in the order the resolver visits them:
\* children, then declared fallbacks of the current node
Candidates(id) ==
  LET currentNode == IF id \in RegionIds THEN id ELSE ROUTING_TREE.children[1]
  IN RegionChildren[currentNode] \o RegionFallbacks[currentNode]

Admissible(id) ==
  \/ HealthOf(resolution.health, id) = "healthy"
  \/ id \in resolution.forceInclude

Resolved == resolution.currentRegionId # Null

\* C13 as stated: a resolution never returns a node tagged unhealthy or
\* deprecated unless forceInclude lists it
C13_NeverUnhealthy ==
  Resolved => Admissible(resolution.node)

\* C14: when a candidate of the current node (children, then declared
\* fallbacks) is healthy or force-included, the resolution returns the first
\* such candidate; so from aws-us-east-1 it returns aws-eu-west-1 with no
\* marks, openai-us when aws-eu-west-1 is deprecated and openai-us is not
\* marked, and aws-eu-west-1 when it is deprecated but force-included
C14_FirstAdmissible ==
  Resolved =>
    LET queue == Candidates(resolution.currentRegionId)
        health == resolution.health
    IN /\ \A i \in 1..Len(queue) :
            (Admissible(queue[i]) /\ \A j \in 1..(i - 1) : ~Admissible(queue[j]))
              => resolution.node = queue[i]
       /\ resolution.currentRegionId = "aws-us-east-1" =>
            /\ DOMAIN health = {} => resolution.node = "aws-eu-west-1"
            /\ (HealthOf(health, "aws-eu-west-1") = "deprecated"
                 /\ "aws-eu-west-1" \notin resolution.forceInclude
                 /\ "openai-us" \notin DOMAIN health)
                  => resolution.node = "openai-us"
            /\ (HealthOf(health, "aws-eu-west-1") = "deprecated"
                 /\ "aws-eu-west-1" \in resolution.forceInclude)
                  => resolution.node = "aws-eu-west-1"

\* the deprecated first fallback of aws-us-east-1 is force-included and
\* returned
C14_Witness ==
  /\ resolution.currentRegionId = "aws-us-east-1"
  /\ HealthOf(resolution.health, "aws-eu-west-1") = "deprecated"
  /\ resolution.forceInclude = {"aws-eu-west-1"}
  /\ resolution.node = "aws-eu-west-1"

\* the run returned the upstream's 2xx answer
LiveSuccess == result.returned /\ result.success /\ result.via = "live"

\* position i holds the last failed cycle of its region
LastOfRegion(i) ==
  \A j \in (i + 1)..Len(state.regionHistory) :
     state.regionHistory[j] # state.regionHistory[i]

C16_RegionIndexInRange ==
  /\ 0 <= state.regionIndex
  /\ state.regionIndex < Len(state.regions)

\* caller p's fetch settled in this step
Settled(p) == fetches[p].phase = "fetching" /\ fetches'[p] # fetches[p]

\* C17: within one smartFetch call the tokenRefresher is called at most once
C17_OneRecoveryPerCall ==
  \A p \in DOMAIN fetches : fetches[p].refresherCalls <= 1

\* the recovery returned a token, the next attempt answered 401 again and
\* the call ended without asking the refresher a second time
C17_Witness ==
  /\ fetches["a"].phase = "returned"
  /\ fetches["a"].requests = 2
  /\ fetches["a"].last.status = 401
  /\ fetches["a"].authorization = "tok-recovered"
  /\ fetches["a"].refresherCalls = 1

\* C18 as stated: a recovery that yields a token is followed by another
\* fetch with the new Authorization header, and the step consumes no retry
\* budget, whatever maxRetries is
C18_RecoveryResends ==
  [][ \A p \in DOMAIN fetches :
        (fetches[p].phase = "refreshing" /\ fetches'[p].authorization = "tok-recovered") =>
          /\ fetches'[p].phase = "fetching"
          /\ retryBudgetStore' = retryBudgetStore ]_vars

\* C19: a denied consume puts retry_budget_exhausted into the fix actions
\* and ends the call with the budget message; a call that has returned
\* sleeps and fetches no more; the budget store is touched only while
\* attempts remain
C19_DenialIsTerminal ==
  [][ \A p \in DOMAIN fetches :
        /\ Settled(p) =>
             /\ fetches'[p].last.consumed # "none" =>
                  /\ fetches[p].config.retryBudget # NoBudget
                  /\ fetches[p].attempt < fetches[p].config.maxRetries
                  /\ fetches'[p].last.status \notin {200}
             /\ fetches'[p].last.consumed = "denied" =>
                  /\ fetches'[p].phase = "returned"
                  /\ "retry_budget_exhausted" \in fetches'[p].fixActions
                  /\ fetches'[p].error.message = "Retry budget exhausted"
             /\ fetches'[p].last.consumed = "granted" => fetches'[p].phase = "sleeping"
             /\ fetches[p].attempt >= fetches[p].config.maxRetries =>
                  retryBudgetStore' = retryBudgetStore
        /\ fetches[p].phase = "returned" =>
             /\ fetches'[p].phase \in {"returned", "idle"}
             /\ fetches'[p].requests \in {fetches[p].requests, 0} ]_vars

\* a network error with a retry left met a spent budget
C19_Witness ==
  /\ fetches["a"].phase = "returned"
  /\ fetches["a"].last = [status |-> 0, consumed |-> "denied"]
  /\ fetches["a"].attempt < fetches["a"].config.maxRetries
  /\ fetches["a"].requests = 1
  /\ "retry_budget_exhausted" \in fetches["a"].fixActions
  /\ fetches["a"].error.message = "Retry budget exhausted"

\* with the default retryStatusCodes, the response statuses in codes, and
\* only those, take the retry branch; any other non-2xx status that is not
\* answered by a token recovery ends the call with that status
DefaultRetryableIs(codes) ==
  \A p \in DOMAIN fetches :
    LET status == fetches'[p].last.status
    IN (/\ Settled(p)
        /\ fetches[p].config.retryStatusCodes = {}
        /\ status \notin {0, 200}
        /\ fetches'[p].phase # "refreshing") =>
         /\ retryStatusAction(status) \in fetches'[p].fixActions <=> status \in codes
         /\ status \notin codes =>
              /\ fetches'[p].phase = "returned"
              /\ fetches'[p].error.status = status
              /\ fetches'[p].requests = fetches[p].requests + 1

\* C20 as stated: by default a status is retryable exactly when it is 429
\* or in 500..599
C20_Default429And5xx == [][DefaultRetryableIs({429} \cup (500..599))]_vars

\* C20 amended: by default a status is retryable exactly when it is 410,
\* 429 or in 500..599
C20_Default410And429And5xx == [][DefaultRetryableIs({410, 429} \cup (500..599))]_vars

\* with the default codes a 410 was retried and a 404 ended the call
C20_Witness ==
  /\ fetches["a"].config.retryStatusCodes = {}
  /\ fetches["a"].phase = "returned"
  /\ fetches["a"].requests = 2
  /\ "retry_status_410" \in fetches["a"].fixActions
  /\ fetches["a"].last.status = 404
  /\ fetches["a"].error.status = 404

\* the union of the fix actions of the attempt logs of a frame
AttemptFixActions(f) ==
  UNION { f.attempts[i].fixActions : i \in 1..Len(f.attempts) }

\* C21: in every smartFetch result, meta.fixActions holds exactly the fix
\* actions that the entries of meta.attempts hold
C21_FixActionsAreUnion ==
  \A p \in DOMAIN fetches :
     fetches[p].phase = "returned" =>
       fetches[p].fixActions = AttemptFixActions(fetches[p])

\* the first attempt was rejected and retried, the second and last was
\* answered 503: three entries, two of them with the same fix action
C21_Witness ==
  /\ fetches["a"].phase = "returned"
  /\ Len(fetches["a"].attempts) = 3
  /\ fetches["a"].attempts[1].fixActions = {"network_error"}
  /\ fetches["a"].attempts[2].fixActions = {"retry_status_503"}
  /\ fetches["a"].attempts[3].fixActions = {"retry_status_503"}
  /\ fetches["a"].fixActions = {"retry_status_503", "network_error"}

\* the status of meta.attempts.at(-1), 0 when the entry carries none
LastAttemptStatus(f) ==
  IF Len(f.attempts) = 0 THEN 0 ELSE f.attempts[Len(f.attempts)].status

\* C22 as stated: whenever a smartFetch call returns an error, the status of
\* its last attempt log and the status of the error are the same (both
\* absent, or both present and equal)
C22_LastLogStatusIsErrorStatus ==
  \A p \in DOMAIN fetches :
     (fetches[p].phase = "returned" /\ fetches[p].error # NoError) =>
        LastAttemptStatus(fetches[p]) = fetches[p].error.status

\* the run returned from the degradation pipeline
Degraded == Returned /\ result.via \in {"fallback", "gave_up"}

\* the cache key the pipeline of the run recalls
PipelineKey ==
  makeCacheKey(params, IF Len(state.regionHistory) = 0 THEN Null
                       ELSE Last(state.regionHistory))

\* C23: when stale cache is enabled and the recall hits, the pipeline answers
\* with the cached data as stale-cache from source cache, with the message
\* of the last error as originalError, and the mock collaborator is not
\* called
C23_StaleCacheServed ==
  (Degraded /\ StaleHit) =>
    LET entry == CHOOSE e \in recallResponse(cacheStore, PipelineKey,
                                             params.degradation.staleTtlMs, now) : TRUE
    IN /\ result.success
       /\ result.data = entry.data
       /\ result.degraded = createDegradedResponse(entry.data, "stale-cache", "cache",
                                                   LastError(state).message)
       /\ result.pipelineMock = "not_called"

\* a run with mock enabled failed its cycles and was answered from the cache
C23_Witness ==
  /\ Degraded
  /\ StaleHit
  /\ params.degradation.enableMock
  /\ Len(state.attempts) >= 1
  /\ result.degraded.degradation = "stale-cache"
  /\ result.degraded.originalError = LastError(state).message

\* C24: when stale cache is disabled or misses and mock is enabled, the
\* pipeline calls the mock collaborator and returns its DegradedResponse
\* unchanged; when the collaborator throws, the run still returns, without
\* a fallback
C24_MockServed ==
  (Degraded /\ ~StaleHit /\ params.degradation.enableMock) =>
    /\ result.pipelineMock # "not_called"
    /\ pc = "done"
    /\ IF result.pipelineMock = "fail"
       THEN result.via = "gave_up" /\ ~result.success
       ELSE /\ result.success
            /\ result.degraded =
                 requestMockResponse([mock |-> result.pipelineMock],
                                     LastError(state).message)
            /\ result.data = result.degraded.data

\* stale cache is enabled but holds nothing; the mock collaborator answered
\* with a partial response, which the run returns
C24_Witness ==
  /\ Degraded
  /\ params.degradation.enableStaleCache
  /\ cacheStore = {}
  /\ result.pipelineMock = "partial"
  /\ result.degraded.degradation = "partial"
  /\ result.degraded.source = "llm-mock"

\* the pipeline of the run has nothing to return
NoFallbackLeft ==
  /\ ~StaleHit
  /\ ~params.degradation.enableMock \/ result.pipelineMock = "fail"

\* C25: a run that leaves the loop and gets no fallback from the pipeline
\* returns success = false, no data, a degraded response of level none and,
\* as finalError, the error of its last observation
C25_GiveUp ==
  Degraded =>
    /\ NoFallbackLeft <=> result.via = "gave_up"
    /\ result.via = "gave_up" =>
         /\ ~result.success
         /\ result.data = NoPayload
         /\ result.degraded.data = NoPayload
         /\ result.degraded.degradation = "none"
         /\ Len(state.attempts) > 0 => result.finalError = Last(state.attempts).error

\* the cycles of a run without stale cache failed and the mock collaborator
\* threw: finalError is the error of the last cycle
C25_Witness ==
  /\ Degraded
  /\ ~params.degradation.enableStaleCache
  /\ params.degradation.enableMock
  /\ result.pipelineMock = "fail"
  /\ result.via = "gave_up"
  /\ Len(state.attempts) > 0
  /\ result.finalError = Last(state.attempts).error

\* the cache key K of the runs
RunKey == CustomKey(DefaultDegradation.cacheKey)

\* the entries of K that are at most ttlMs old
YoungEntries(ttlMs) ==
  { e \in cacheStore : e.key = RunKey /\ now - e.cachedAt <= ttlMs }

\* C26: a live success of a run with stale cache enabled leaves its data
\* under K, stamped with the time of the success; nothing but such a
\* success changes the cache; and a later run with stale cache enabled that
\* leaves its loop while the entry is at most staleTtlMs old returns
\* success = true with the cached data, degradation stale-cache, source
\* cache
C26_StaleCacheAcrossRuns ==
  [][ /\ (pc = "loop" /\ pc' = "done" /\ result'.via = "live"
          /\ params.degradation.enableStaleCache) =>
           /\ [key |-> RunKey, data |-> result'.data, cachedAt |-> now] \in cacheStore'
           /\ \A e \in cacheStore' : e.key = RunKey => e.data = result'.data
      /\ cacheStore' # cacheStore =>
           pc = "loop" /\ result'.via = "live" /\ params.degradation.enableStaleCache
      /\ (pc # "done" /\ pc' = "done" /\ result'.via \in {"fallback", "gave_up"}
          /\ params.degradation.enableStaleCache
          /\ YoungEntries(params.degradation.staleTtlMs) # {}) =>
           LET entry == CHOOSE e \in YoungEntries(params.degradation.staleTtlMs) : TRUE
           IN /\ result'.success
              /\ result'.data = entry.data
              /\ result'.degraded.data = entry.data
              /\ result'.degraded.degradation = "stale-cache"
              /\ result'.degraded.source = "cache" ]_vars

\* an earlier run cached its live success; exactly staleTtlMs later a run
\* failed its cycle and was answered with the cached data
C26_Witness ==
  /\ Degraded
  /\ Len(state.attempts) = 1
  /\ \E e \in cacheStore :
       /\ e.key = RunKey
       /\ now - e.cachedAt = params.degradation.staleTtlMs
       /\ result.data = e.data
  /\ result.success
  /\ result.degraded.degradation = "stale-cache"
  /\ result.degraded.source = "cache"

\* list a is an initial part of list b
IsPrefix(a, b) ==
  /\ Len(a) <= Len(b)
  /\ \A i \in 1..Len(a) : b[i] = a[i]

\* the cycle numbers of a list of records do not decrease
CyclesAscend(list) ==
  \A i \in 1..Len(list), j \in 1..Len(list) : i <= j => list[i].cycle <= list[j].cycle

\* C27: every step of a run leaves the observations, the decision log, the
\* interventions and the region history as they were or longer by appended
\* entries, and the cycle numbers of the observations, decisions and
\* interventions never decrease along their list
C27_AppendOnlyInCycleOrder ==
  [][ /\ IsPrefix(state.attempts, state'.attempts)
      /\ IsPrefix(state.decisionLog, state'.decisionLog)
      /\ IsPrefix(state.interventions, state'.interventions)
      /\ IsPrefix(state.regionHistory, state'.regionHistory)
      /\ CyclesAscend(state'.attempts)
      /\ CyclesAscend(state'.decisionLog)
      /\ CyclesAscend(state'.interventions) ]_vars

\* two cycles failed, were decided on and acted on
C27_Witness ==
  /\ Len(state.attempts) = 2
  /\ Len(state.decisionLog) = 2
  /\ Len(state.interventions) = 2
  /\ Len(state.regionHistory) = 2
  /\ state.attempts[1].cycle < state.attempts[2].cycle
  /\ state.decisionLog[1].cycle < state.decisionLog[2].cycle
  /\ state.interventions[1].cycle < state.interventions[2].cycle

\* the call under study has been made twice, the second time on what the
\* first returned
AppliedTwice == evaluation.applied = 2

\* no field map entry reads a key that a later entry or a default writes
ReadsAfterWrites(hints) ==
  \A i \in DOMAIN hints.fieldMap :
    /\ \A j \in DOMAIN hints.fieldMap :
         j > i => hints.fieldMap[j].expected # hints.fieldMap[i].actual
    /\ hints.fieldMap[i].actual \notin DOMAIN hints.defaults

AppliedToObject == evaluation.applied >= 1 /\ evaluation.payload.kind = "object"

ExpectedKeys(hints) == { hints.fieldMap[i].expected : i \in DOMAIN hints.fieldMap }

\* entry i of the field map reads a key that an earlier entry writes
ReadsWritten(hints, i) ==
  \E j \in DOMAIN hints.fieldMap : j < i /\ hints.fieldMap[j].expected = hints.fieldMap[i].actual

\* every original key is kept, and the keys that no entry writes keep their
\* values whether or not a default is given for them
KeysKept(x, r) ==
  /\ DOMAIN x \subseteq DOMAIN r
  /\ \A key \in DOMAIN x \ ExpectedKeys(evaluation.hints) : r[key] = x[key]

\* C29 as stated: for an object payload the result keeps every original key,
\* each expected key whose actual key is present in the payload holds the
\* payload's value of the actual key, each defaults key missing from the
\* payload holds its default, and present keys are not given their default
C29_MapsAndDefaultsOfPayload ==
  AppliedToObject =>
    LET hints == evaluation.hints
        x == evaluation.payload.fields
        r == evaluation.once.fields
    IN hints.present =>
         /\ KeysKept(x, r)
         /\ \A i \in DOMAIN hints.fieldMap :
              hints.fieldMap[i].actual \in DOMAIN x
                => r[hints.fieldMap[i].expected] = x[hints.fieldMap[i].actual]
         /\ \A key \in DOMAIN hints.defaults \ DOMAIN x : r[key] = hints.defaults[key]

\* C29: the same with the order of the steps told: an entry whose actual key
\* no earlier entry writes copies the payload's value, an entry that follows
\* the writer of its actual key copies what the result holds there, and a
\* default fills a key that is missing from the payload and that no entry
\* writes
C29_MapsInOrderThenDefaults ==
  AppliedToObject =>
    LET hints == evaluation.hints
        x == evaluation.payload.fields
        r == evaluation.once.fields
    IN hints.present =>
         /\ KeysKept(x, r)
         /\ DOMAIN r \subseteq (DOMAIN x \cup ExpectedKeys(hints)) \cup DOMAIN hints.defaults
         /\ \A i \in DOMAIN hints.fieldMap :
              hints.fieldMap[i].actual \in DOMAIN x
                => r[hints.fieldMap[i].expected] =
                     IF ReadsWritten(hints, i)
                     THEN r[hints.fieldMap[i].actual]
                     ELSE x[hints.fieldMap[i].actual]
         /\ \A key \in (DOMAIN hints.defaults \ DOMAIN x) \ ExpectedKeys(hints) :
              r[key] = hints.defaults[key]

\* the case of toolkit.test.ts: a renamed field is copied, a missing key gets
\* its default, and a key present with null keeps it although a default is given
C29_Witness ==
  /\ AppliedToObject
  /\ evaluation.payload.fields = [b |-> "v1", c |-> "null"]
  /\ evaluation.hints.fieldMap = << [expected |-> "a", actual |-> "b"] >>
  /\ DOMAIN evaluation.hints.defaults = {"a", "c"}
  /\ evaluation.once.fields = [a |-> "v1", b |-> "v1", c |-> "null"]

\* the schema drift hints of an observation carry a field map or defaults:
\* the hint of the body's detail (the body itself when it has no detail
\* object), else the hint of the trigger hints
CarriesSchemaHints(observation) ==
  LET body == observation.error.body
      inDetail == IF body.detail = "object"
                  THEN IF body.detailHint.present THEN body.detailHint ELSE body.detailSchema
                  ELSE IF body.schemaHint.present THEN body.schemaHint ELSE body.schema
      hint == IF inDetail.present THEN inDetail ELSE body.schemaHint
  IN /\ body.kind = "object"
     /\ hint.keys # {}

\* the words quota, rate or limit occur in the message of the body's detail,
\* in either case
MessageNamesQuota(observation) ==
  LET body == observation.error.body
  IN /\ body.kind = "object"
     /\ body.detail = "object"
     /\ \/ \E i \in DOMAIN body.error : body.error[i] \in {"Quota", "RATE", "limit"}
        \/ body.error = << "cannot", "generate" >>

\* detail.retry_budget_remaining as a number is at most n
BudgetAtMost(observation, n) ==
  LET body == observation.error.body
  IN /\ body.kind = "object"
     /\ body.detail = "object"
     /\ body.retryBudgetRemaining.type = "number"
     /\ body.retryBudgetRemaining.value <= n

\* C30: the heuristic planner answers adapt_schema when the observation
\* carries schema hints with a field map or defaults, whatever the status;
\* otherwise 401 gives refresh_token, 503 gives queue_recovery, use_mock or
\* switch_region by the retry budget left (at most 0, at most 1, else), 422
\* gives rewrite_request with the trigger hints as params, 429 gives use_mock
\* on a quota, rate or limit message and queue_recovery otherwise, 402 gives
\* use_mock, and every other status or none gives retry
C30_HeuristicTable ==
  evaluation.decided =>
    LET observation == evaluation.observation
        status == observation.error.status
        d == evaluation.decision
    IN IF CarriesSchemaHints(observation) THEN d.action = "adapt_schema"
       ELSE /\ status = 401 => d.action = "refresh_token"
            /\ status = 503 =>
                 d.action = IF BudgetAtMost(observation, 0) THEN "queue_recovery"
                            ELSE IF BudgetAtMost(observation, 1) THEN "use_mock"
                            ELSE "switch_region"
            /\ status = 422 =>
                 /\ d.action = "rewrite_request"
                 /\ observation.triggerHints.kind # "undefined"
                      => d.params = "triggerHints" /\ d.body = observation.triggerHints
            /\ status = 429 =>
                 d.action = IF MessageNamesQuota(observation) THEN "use_mock"
                            ELSE "queue_recovery"
            /\ status = 402 => d.action = "use_mock"
            /\ status \notin {401, 503, 422, 429, 402} => d.action = "retry"

\* a 429 whose message names the rate in capitals, without schema hints, has
\* been answered by use_mock
C30_Witness ==
  /\ evaluation.decided
  /\ evaluation.observation.error.status = 429
  /\ evaluation.observation.error.body.error = << "RATE", "limited" >>
  /\ ~CarriesSchemaHints(evaluation.observation)
  /\ evaluation.decision.action = "use_mock"

\* C31 as stated: a planner decision whose action is not a known healing
\* action is carried out as retry: the intervention says retry, cyclesUsed
\* stays as it is and the loop goes on
C31_UnknownActionIsRetry ==
  [][ (pc = "act" /\ decision.action \notin HealingActions /\ pc' # "thrown") =>
        /\ pc' = "loop"
        /\ state'.cyclesUsed = state.cyclesUsed
        /\ state'.interventions[Len(state'.interventions)].action = "retry" ]_vars

\* C32 as stated: two runs whose states differ in the value of the token
\* only, both holding a token, send the same prompt to the model
C32_PromptHidesToken ==
  (evaluation.built = {1, 2} /\ evaluation.token[1] # "" /\ evaluation.token[2] # "")
    => evaluation.prompt[1] = evaluation.prompt[2]

\* C33: the envelope posted by queue_recovery holds no header named
\* authorization, proxy-authorization or cookie in any letter case, whatever
\* the caller and earlier rewrite_request actions put into the request
\* headers, and the state the action returns has queued = true
C33_EnvelopeIsSanitized ==
  /\ evaluation.posted =>
       \A key \in evaluation.envelope.headers :
         toLowerCase(key) \notin {"authorization", "proxy-authorization", "cookie"}
  /\ pc = "returned" => state.queued

\* the caller wrote Authorization and X-Trace, a rewrite added cookie, and
\* the envelope went out with the two harmless headers only
C33_Witness ==
  /\ pc = "returned"
  /\ state.queued
  /\ state.options.headers.extra = {"authorization", "x-trace", "cookie"}
  /\ state.repairAttempts = 1
  /\ evaluation.envelope.headers = {"x-trace", "x-healer-repair-attempt"}

\* C40 as stated: when the POST to the queue collaborator raises or is
\* answered by a non-2xx status, the action fails and the state is not
\* marked queued
C40_QueuedOnlyWhenAccepted ==
  (evaluation.posted /\ evaluation.answer # "ok") =>
    /\ pc = "thrown"
    /\ ~state.queued

\* C34 as stated: a smartFetch call that has returned holds one attempt log
\* per fetch it made, so that meta.retries is the number of fetches less one
C34_OneLogPerExchange ==
  \A p \in DOMAIN fetches :
    fetches[p].phase = "returned" => Len(fetches[p].attempts) = fetches[p].requests

\* C35: when the token refresher throws or yields no token, the call
\* returns at once with an error of the rejected status: no fetch and no
\* sleep follow, and the Authorization header, the retry budget and its
\* grants stay as they were, whatever retries remain
C35_FailedRecoveryIsTerminal ==
  [][ \A p \in DOMAIN fetches :
        (/\ fetches[p].phase = "refreshing"
         /\ fetches'[p] # fetches[p]
         /\ fetches'[p].authorization # "tok-recovered") =>
          /\ fetches'[p].phase = "returned"
          /\ fetches'[p].error.status = fetches[p].last.status
          /\ fetches'[p].error.status \in {401, 403, 429}
          /\ fetches'[p].requests = fetches[p].requests
          /\ fetches'[p].attempt = fetches[p].attempt
          /\ fetches'[p].authorization = fetches[p].authorization
          /\ retryBudgetStore' = retryBudgetStore
          /\ consumeLog' = consumeLog ]_vars

\* a 429 with a retry left and a budget met a refresher that gave no token
C35_Witness ==
  /\ fetches["a"].phase = "returned"
  /\ fetches["a"].refresherCalls = 1
  /\ fetches["a"].last.status = 429
  /\ fetches["a"].attempt < fetches["a"].config.maxRetries
  /\ fetches["a"].config.retryBudget # NoBudget
  /\ fetches["a"].requests = 1
  /\ fetches["a"].authorization = "tok-initial"
  /\ fetches["a"].error = [status |-> 429, message |-> "Token recovery unavailable."]

\* C36 as stated: the Authorization header of every Transport call is
\* Bearer <token> for the token set last: by the provider, by a
\* refresh_token action or by the token recovery handler
C36_HeaderIsBearerToken ==
  evaluation.calls > 0 => evaluation.sent = Bearer(evaluation.last)

\* C36 amended: the token set last is the token of the state; a call made
\* while a token is set carries Bearer <token>, whatever Authorization
\* header the caller or a rewrite put into the request, so the call after a
\* refresh_token that issued a token carries that token; a call made while
\* no token is set carries the header of the request itself, if it has one
C36_HeaderIsBearerTokenWhenSet ==
  /\ evaluation.set = state.token
  /\ evaluation.calls > 0 =>
       IF evaluation.last # ""
       THEN evaluation.sent = Bearer(evaluation.last)
       ELSE evaluation.sent \in {RequestAuthorization, NoAuthorization}

\* the call after a refresh_token carried the token issued, though the
\* request has an Authorization header of its own
C36_Witness ==
  /\ evaluation.carried
  /\ evaluation.calls = 2
  /\ evaluation.sent = Bearer("tok-issued")
  /\ "authorization" \in toHeaders(state.options.headers.extra)

\* C37 as stated: a repair_payload that the guard admits sets the repair
\* header to the new count and adds one to repairAttempts, whatever the
\* body of the request is
C37_RepairCountsForEveryBody ==
  [][ (/\ TkCall
       /\ returned'.action = "repair_payload"
       /\ returned'.intervention.action = "repair_payload") =>
        /\ state'.repairAttempts = state.repairAttempts + 1
        /\ state'.options.headers.repairAttempt = state'.repairAttempts ]_vars

\* C38 as stated: a switch_region that reports a switch to an alternate
\* region leaves the run at a region other than the one that just failed
C38_SwitchLeavesFailedRegion ==
  [][ (/\ pc = "plan"
       /\ returned'.action = "switch_region"
       /\ returned'.intervention.reason = "Switching to alternate region") =>
        CurrentRegion(state') # CurrentRegion(state) ]_vars

\* C39 as stated: the observation, the decision-log entry and the
\* intervention of a failed cycle carry one cycle number, and a run that
\* has returned holds as many observations as decisions and interventions
C39_CycleRecordsAgree ==
  /\ \A i \in 1..Len(state.interventions) :
       /\ state.decisionLog[i].cycle = state.attempts[i].cycle
       /\ state.interventions[i].cycle = state.attempts[i].cycle
  /\ result.returned =>
       /\ Len(state.decisionLog) = Len(state.attempts)
       /\ Len(state.interventions) = Len(state.attempts)

====
